---- MODULE Spec2Model ----
(***************************************************************************)
(* Scope-aware identifier renaming (src/idea.py): the full policy          *)
(* (class Renamer) and the selective policy (class ImportRenamer), their   *)
(* scope stacks, alias generators and per-node-kind visitors.  After them  *)
(* the value with history of src/test.py (class HistoryValue) and the      *)
(* lazy memoizing list of src/another_test.py (class LazyList).            *)
(***************************************************************************)
EXTENDS Integers, Sequences, FiniteSets, TLC

VARIABLES
    scopes,      \* Renamer.scopes: list of dicts original -> alias
    rng,         \* state of the process-wide generator of module `random`
    minted,      \* history: the aliases the generators returned, in order
    name_map,    \* ImportRenamer.name_map: dict original -> alias
    sel_scopes,  \* ImportRenamer.scopes: list of sets of bound names
    sel_random,  \* state of ImportRenamer.random (one Random per instance)
    pc,          \* position of the traversal: "new" or "done"
    last,        \* the last call: its name, argument, result and trace
    engines,     \* the instances that traverse side by side, when there are several
    hv_values,   \* HistoryValue.__values: the list that is an attribute of the class
    hv_objs,     \* the HistoryValue instances: their cursor and their own list
    ll_values,   \* LazyList.__values: the dict that is an attribute of the class
    ll_objs      \* the LazyList instances: functions, index, caching, own dict

\* the objects of src/test.py and src/another_test.py
objects == <<hv_values, hv_objs, ll_values, ll_objs>>

vars == <<scopes, rng, minted, name_map, sel_scopes, sel_random, pc, last, engines,
          objects>>

\* no HistoryValue and no LazyList in the process
NoObjects ==
    /\ hv_values = << >>
    /\ hv_objs = << >>
    /\ ll_values = << >>
    /\ ll_objs = << >>

(***************************************************************************)
(* Bounds of the model.                                                    *)
(***************************************************************************)
\* calls of random() a generator that was not seeded by the instance has
\* answered before the traversal
MaxSkip == 1
\* aliases minted while the scope stack is driven call by call
MaxMint == 3
\* depth of the scope stack when it is driven call by call
MaxDepth == 2

\* identifiers of the input programs
Names == {"foo", "x", "y"}
None == "None"
Seeds == {0, 5, 1331}

(***************************************************************************)
(* The generator of module random (the Mersenne Twister of CPython).  Its  *)
(* state is the seed it was given and the number of calls of random() it   *)
(* has answered since, as one integer; RandomStream(seed) is what          *)
(* random() returns after random.seed(seed), call by call.                 *)
(***************************************************************************)
\* string.digits + string.ascii_letters, and string.ascii_lowercase
Alphanumerics ==
    <<"0", "1", "2", "3", "4", "5", "6", "7", "8", "9",
      "a", "b", "c", "d", "e", "f", "g", "h", "i", "j", "k", "l", "m",
      "n", "o", "p", "q", "r", "s", "t", "u", "v", "w", "x", "y", "z",
      "A", "B", "C", "D", "E", "F", "G", "H", "I", "J", "K", "L", "M",
      "N", "O", "P", "Q", "R", "S", "T", "U", "V", "W", "X", "Y", "Z">>
Lowercase ==
    <<"a", "b", "c", "d", "e", "f", "g", "h", "i", "j", "k", "l", "m",
      "n", "o", "p", "q", "r", "s", "t", "u", "v", "w", "x", "y", "z">>

\* random characters of a name: the default n of gen_random_name, and the
\* k of _make_alias
NameLen == 8
AliasLen == 3

\* the floats of random() are kept as floor(random() * Resolution); the two
\* population sizes divide Resolution, so floor(random() * n) is exact
Resolution == Len(Alphanumerics) * Len(Lowercase)

\* floor(random() * Resolution) of the first calls of random() after
\* random.seed(0), random.seed(5) and random.seed(1331)
S0 ==
    <<
        1361, 1221, 677, 417, 824, 652, 1263, 488, 768, 940, 1463, 813,
        454, 1218, 996, 403, 1466, 1584, 1306, 1454, 499, 1176, 1448,
        1102, 761, 162, 699, 984, 1471, 1558, 768, 1394, 419, 1297, 884,
        22, 1160, 642, 1329, 1077, 1, 795, 1398, 393, 524, 1403, 308,
        914, 384, 1559, 1294, 722, 129, 515, 818, 1503, 175, 888, 1138,
        882, 1312, 870, 1553, 972, 947, 717, 961, 620, 927, 468, 305,
        301, 987, 1058, 768, 144, 1221, 1413, 1488, 1358, 1447, 1488,
        871, 630, 1136, 444, 1308, 1369, 1442, 950, 1531, 934, 726,
        1064, 1605, 1478, 1278, 132, 987, 784, 1015, 1362, 391, 1179,
        188, 355, 1280, 536, 1315, 162, 235, 1124, 72, 925, 1466, 861,
        1097, 43, 1023, 977, 928, 630, 596, 1580, 58, 34, 1549, 298,
        199, 339, 1290, 1510, 36, 686, 163, 418, 355, 1042, 564, 290,
        811, 63, 162, 1593, 321, 577, 1179, 1351, 1480, 273, 1084, 1558,
        93, 1090, 1362, 551, 404, 962, 713, 281 >>
S5 ==
    <<
        1004, 1195, 1281, 1519, 1192, 1486, 46, 750, 1520, 1046, 1452,
        182, 756, 397, 876, 925, 21, 349, 450, 1477, 1234, 257, 1285,
        223, 995, 204, 2, 1404, 337, 347, 1583, 1406, 466, 1549, 869,
        1092, 330, 1516, 1113, 1558, 1440, 481, 582, 267, 234, 105, 485,
        972, 5, 1092, 544, 499, 1319, 774, 509, 775, 1135, 91, 1571, 36,
        1208, 1361, 29, 1269, 590, 932, 14, 75, 291, 1539, 316, 1218,
        1498, 1518, 555, 571, 845, 1250, 174, 1206, 1285, 1385, 59,
        1524, 146, 549, 984, 1479, 548, 1489, 878, 503, 510, 286, 126,
        239, 1110, 1606, 260, 78, 1590, 860, 654, 382, 957, 1331, 734,
        679, 89, 1476, 52, 795, 1351, 210, 1179, 1531, 1016, 1270, 171,
        700, 240, 1361, 475, 730, 1610, 1373, 1573, 731, 786, 1175, 772,
        469, 650, 236, 607, 1593, 1547, 1010, 804, 545, 143, 438, 1260,
        1398, 582, 1267, 1249, 1119, 1070, 1224, 585, 1135, 452, 782,
        1240, 1113, 473, 1524, 1047, 936 >>
S1331 ==
    <<
        930, 782, 611, 966, 782, 573, 1364, 680, 1357, 1044, 946, 1039,
        824, 1163, 953, 704, 256, 554, 822, 632, 186, 1451, 52, 670,
        1355, 1301, 259, 1391, 1003, 1434, 1112, 294, 183, 244, 577,
        910, 480, 1607, 1366, 690, 664, 828, 1368, 885, 1013, 798, 698,
        966, 449, 450, 1145, 1417, 908, 1130, 1078, 658, 168, 1086, 763,
        562, 604, 240, 523, 1182, 1127, 934, 363, 137, 707, 1151, 103,
        861, 34, 386, 1095, 701, 615, 347, 1546, 724, 707, 174, 367,
        841, 1546, 281, 271, 392, 1496, 747, 1460, 599, 1010, 1107,
        1364, 796, 1006, 1029, 220, 1355, 831, 1356, 695, 230, 671,
        1204, 1533, 965, 546, 932, 1488, 220, 1275, 859, 1335, 570, 670,
        949, 1418, 425, 1111, 751, 1231, 267, 1114, 1263, 435, 937,
        1266, 394, 765, 1561, 267, 255, 494, 1230, 1161, 1134, 481, 495,
        499, 1267, 485, 520, 1033, 704, 228, 789, 382, 1250, 59, 341,
        713, 182, 571, 59, 422, 968, 309, 1291 >>

\* random.seed(seed); random.random() again and again
RandomStream(seed) ==
    CASE seed = 0 -> S0
      [] seed = 5 -> S5
      [] seed = 1331 -> S1331

\* calls of random() followed per seed
StreamLen == Len(RandomStream(0))

\* random.seed(seed) / random.Random(seed)
random_seed(seed) == seed * StreamLen

\* floor(random() * Resolution) for the next call of random()
random_random(state) == RandomStream(state \div StreamLen)[(state % StreamLen) + 1]

\* one draw: index floor(random() * n) into a population of n, and the next state
random_index(state, n) == (random_random(state) * n) \div Resolution
random_next(state) == state + 1

\* the generator after k calls of random()
RECURSIVE random_after(_, _)
random_after(state, k) ==
    IF k = 0 THEN state ELSE random_after(random_next(state), k - 1)

\* the generators the model starts from: seeded, and used up to MaxSkip times
GeneratorStates ==
    {random_after(random_seed(seed), skip) : seed \in Seeds, skip \in 0 .. MaxSkip}

\* "".join(random.choices(population, k=k))
RECURSIVE random_string(_, _, _)
random_string(state, population, k) ==
    IF k = 0 THEN ""
    ELSE population[random_index(state, Len(population)) + 1]
         \o random_string(random_next(state), population, k - 1)

\* random.choices(population, k=k) joined into a string, and the generator after it
random_choices(state, population, k) ==
    [str |-> random_string(state, population, k), rng |-> random_after(state, k)]

\* def gen_random_name(n=8)
gen_random_name(state) ==
    LET r == random_choices(state, Alphanumerics, NameLen)
    IN [name |-> "n" \o r.str, rng |-> r.rng]

(***************************************************************************)
(* Renamer: scope helpers.  A traversal state st is a record               *)
(* [scopes, rng, minted, trace]; trace is the history of the calls made.   *)
(***************************************************************************)
EmptyFrame == << >>

Event(ev, id, ctx, new, stack) ==
    [ev |-> ev, id |-> id, ctx |-> ctx, new |-> new, scopes |-> stack]

Log(st, ev, id, ctx, new) ==
    [st EXCEPT !.trace = Append(@, Event(ev, id, ctx, new, st.scopes))]

push_scope(st) ==
    Log([st EXCEPT !.scopes = Append(@, EmptyFrame)], "push", None, None, None)

pop_scope(st) ==
    Log([st EXCEPT !.scopes = SubSeq(@, 1, Len(@) - 1)], "pop", None, None, None)

bind_name_always_mints(st, orig) ==
    LET s1 == IF st.scopes = << >> THEN push_scope(st) ELSE st
        top == Len(s1.scopes)
        g == gen_random_name(s1.rng)
    IN [st |-> Log([s1 EXCEPT !.scopes[top] = (orig :> g.name) @@ s1.scopes[top],
                              !.rng = g.rng,
                              !.minted = Append(@, g.name)],
                   "bind", orig, None, g.name),
        ret |-> g.name]

bind_name(st, orig) ==
    LET s1 == IF st.scopes = << >> THEN push_scope(st) ELSE st
        top == Len(s1.scopes)
        mapping == s1.scopes[top]
    IN IF orig \in DOMAIN mapping
       THEN [st |-> Log(s1, "bind", orig, None, mapping[orig]), ret |-> mapping[orig]]
       ELSE LET g == gen_random_name(s1.rng)
            IN [st |-> Log([s1 EXCEPT !.scopes[top] = (orig :> g.name) @@ mapping,
                                      !.rng = g.rng,
                                      !.minted = Append(@, g.name)],
                           "bind", orig, None, g.name),
                ret |-> g.name]

RECURSIVE lookup_from(_, _, _)
lookup_from(stack, i, orig) ==
    IF i = 0 THEN None
    ELSE IF orig \in DOMAIN stack[i] THEN stack[i][orig]
    ELSE lookup_from(stack, i - 1, orig)

RECURSIVE lookup_outer_first(_, _, _)
lookup_outer_first(stack, i, orig) ==
    IF i > Len(stack) THEN None
    ELSE IF orig \in DOMAIN stack[i] THEN stack[i][orig]
    ELSE lookup_outer_first(stack, i + 1, orig)

lookup_outermost(st, orig) == lookup_outer_first(st.scopes, 1, orig)

lookup(st, orig) == lookup_from(st.scopes, Len(st.scopes), orig)

(***************************************************************************)
(* Syntax trees.  A node is a record with a field kind; a list of nodes is *)
(* a sequence; an absent optional child is NoneNode.                       *)
(***************************************************************************)
NoneNode == [kind |-> "None"]

Name(id, ctx) == [kind |-> "Name", id |-> id, ctx |-> ctx]
Load(id) == Name(id, "Load")
Store(id) == Name(id, "Store")
Constant == [kind |-> "Constant"]
BinOp(l, r) == [kind |-> "BinOp", left |-> l, right |-> r]
Attribute(v, ctx) == [kind |-> "Attribute", value |-> v, ctx |-> ctx]
Tuple(elts, ctx) == [kind |-> "Tuple", elts |-> elts, ctx |-> ctx]
List(elts, ctx) == [kind |-> "List", elts |-> elts, ctx |-> ctx]
Subscript(v, s, ctx) == [kind |-> "Subscript", value |-> v, slice |-> s, ctx |-> ctx]
Starred(v, ctx) == [kind |-> "Starred", value |-> v, ctx |-> ctx]
Expr(v) == [kind |-> "Expr", value |-> v]
Assign(targets, v) == [kind |-> "Assign", targets |-> targets, value |-> v]
AugAssign(t, v) == [kind |-> "AugAssign", target |-> t, value |-> v]
AnnAssign(t, a, v) ==
    [kind |-> "AnnAssign", target |-> t, annotation |-> a, value |-> v]
For(t, it, body) ==
    [kind |-> "For", target |-> t, iter |-> it, body |-> body, orelse |-> << >>]
withitem(e, v) == [kind |-> "withitem", context_expr |-> e, optional_vars |-> v]
With(items, body) == [kind |-> "With", items |-> items, body |-> body]
arg(a) == [kind |-> "arg", arg |-> a, annotation |-> NoneNode]
arguments(posonly, args, kwonly, vararg, kwarg, defaults) ==
    [kind |-> "arguments", posonlyargs |-> posonly, args |-> args,
     kwonlyargs |-> kwonly, vararg |-> vararg, kwarg |-> kwarg,
     defaults |-> defaults, kw_defaults |-> << >>]
FunctionDef(name, args, decorators, body) ==
    [kind |-> "FunctionDef", name |-> name, args |-> args,
     decorator_list |-> decorators, returns |-> NoneNode, body |-> body]
ClassDef(name, bases, body) ==
    [kind |-> "ClassDef", name |-> name, bases |-> bases, keywords |-> << >>,
     decorator_list |-> << >>, body |-> body]
Lambda(args, body) == [kind |-> "Lambda", args |-> args, body |-> body]
comprehension(t, it, ifs) ==
    [kind |-> "comprehension", target |-> t, iter |-> it, ifs |-> ifs]
ListComp(elt, gens) == [kind |-> "ListComp", elt |-> elt, generators |-> gens]
GeneratorExp(elt, gens) ==
    [kind |-> "GeneratorExp", elt |-> elt, generators |-> gens]
SetComp(elt, gens) == [kind |-> "SetComp", elt |-> elt, generators |-> gens]
DictComp(k, v, gens) ==
    [kind |-> "DictComp", key |-> k, value |-> v, generators |-> gens]
\* alias.name is the sequence of the dotted name's components
alias(name, asname) == [kind |-> "alias", name |-> name, asname |-> asname]
Import(names) == [kind |-> "Import", names |-> names]
ImportFrom(names) == [kind |-> "ImportFrom", names |-> names]
Global(names) == [kind |-> "Global", names |-> names]
Nonlocal(names) == [kind |-> "Nonlocal", names |-> names]
keyword(v) == [kind |-> "keyword", value |-> v]
Module(body) == [kind |-> "Module", body |-> body]

\* ast.AST._fields of the kinds no visitor method handles: <<field, is a list>>
ChildFields(kind) ==
    CASE kind = "Module" -> << <<"body", TRUE>> >>
      [] kind = "Expr" -> << <<"value", FALSE>> >>
      [] kind = "BinOp" -> << <<"left", FALSE>>, <<"right", FALSE>> >>
      [] kind \in {"Attribute", "Starred", "keyword"} -> << <<"value", FALSE>> >>
      [] kind \in {"Tuple", "List"} -> << <<"elts", TRUE>> >>
      [] kind = "Subscript" -> << <<"value", FALSE>>, <<"slice", FALSE>> >>
      [] kind = "withitem" ->
            << <<"context_expr", FALSE>>, <<"optional_vars", FALSE>> >>
      [] kind = "arguments" ->
            << <<"posonlyargs", TRUE>>, <<"args", TRUE>>, <<"vararg", FALSE>>,
               <<"kwonlyargs", TRUE>>, <<"kw_defaults", TRUE>>,
               <<"kwarg", FALSE>>, <<"defaults", TRUE>> >>
      [] kind = "arg" -> << <<"annotation", FALSE>> >>
      [] kind = "Lambda" -> << <<"args", FALSE>>, <<"body", FALSE>> >>
      [] kind \in {"GeneratorExp", "SetComp"} ->
            << <<"elt", FALSE>>, <<"generators", TRUE>> >>
      [] kind = "DictComp" ->
            << <<"key", FALSE>>, <<"value", FALSE>>, <<"generators", TRUE>> >>
      [] OTHER -> << >>

(***************************************************************************)
(* Renamer: the visitors of the full policy.  Every visitor takes a node   *)
(* and a traversal state and returns [node, st].                           *)
(***************************************************************************)
\* _collect_target_names without the recursion: the names that are elements
\* of the outermost tuple or list only
_collect_target_names_flat(target) ==
    IF target.kind = "Name" THEN <<target.id>>
    ELSE IF target.kind \in {"Tuple", "List"}
    THEN LET names == SelectSeq(target.elts, LAMBDA e : e.kind = "Name")
         IN [i \in 1 .. Len(names) |-> names[i].id]
    ELSE << >>

\* Renamer._collect_target_names
RECURSIVE _collect_target_names(_)
RECURSIVE collect_elts(_, _)
collect_elts(elts, i) ==
    IF i > Len(elts) THEN << >>
    ELSE _collect_target_names(elts[i]) \o collect_elts(elts, i + 1)

_collect_target_names(target) ==
    IF target.kind = "Name" THEN <<target.id>>
    ELSE IF target.kind \in {"Tuple", "List"} THEN collect_elts(target.elts, 1)
    ELSE << >>

\* Renamer._apply_target_renames
RECURSIVE _apply_target_renames(_, _)
RECURSIVE apply_elts(_, _, _)
apply_elts(elts, st, i) ==
    IF i > Len(elts) THEN << >>
    ELSE <<_apply_target_renames(elts[i], st)>> \o apply_elts(elts, st, i + 1)

_apply_target_renames(target, st) ==
    IF target.kind = "Name"
    THEN LET new == lookup(st, target.id)
         IN IF new # None THEN [target EXCEPT !.id = new] ELSE target
    ELSE IF target.kind \in {"Tuple", "List"}
    THEN [target EXCEPT !.elts = apply_elts(target.elts, st, 1)]
    ELSE target

\* for n in names: self.bind_name(n)
RECURSIVE bind_names(_, _, _)
bind_names(names, st, i) ==
    IF i > Len(names) THEN st
    ELSE bind_names(names, bind_name(st, names[i]).st, i + 1)

\* for a in args: self.bind_name(a.arg); a.arg = self.lookup(a.arg)
RECURSIVE bind_args(_, _, _)
bind_args(args, st, i) ==
    IF i > Len(args) THEN [nodes |-> args, st |-> st]
    ELSE LET s1 == bind_name(st, args[i].arg).st
             a1 == [args[i] EXCEPT !.arg = lookup(s1, args[i].arg)]
         IN bind_args([args EXCEPT ![i] = a1], s1, i + 1)

\* if node: self.bind_name(node.arg); node.arg = self.lookup(node.arg)
bind_optional_arg(a, st) ==
    IF a = NoneNode THEN [node |-> a, st |-> st]
    ELSE LET s1 == bind_name(st, a.arg).st
         IN [node |-> [a EXCEPT !.arg = lookup(s1, a.arg)], st |-> s1]

\* node.<field> = <the node r.node or the list r.nodes of a result r>
Put(node, field, r) == [node |-> [node EXCEPT ![field] = r.node], st |-> r.st]
PutList(node, field, r) == [node |-> [node EXCEPT ![field] = r.nodes], st |-> r.st]

\* the arguments of args once the loop over
\* posonlyargs + args + kwonlyargs has returned r
split_arguments(args, r) ==
    LET n == Len(args.posonlyargs)
        m == n + Len(args.args)
    IN [node |-> [args EXCEPT !.posonlyargs = SubSeq(r.nodes, 1, n),
                              !.args = SubSeq(r.nodes, n + 1, m),
                              !.kwonlyargs = SubSeq(r.nodes, m + 1, Len(r.nodes))],
        st |-> r.st]

\* if node.args.<field>: bind it; p is [node |-> the arguments, st |-> the state]
bind_optional_field(p, field) ==
    Put(p.node, field, bind_optional_arg(p.node[field], p.st))

\* the argument loop without its last step, the binding of **kwargs
bind_arguments_no_kwarg(args, st) ==
    bind_optional_field(
        split_arguments(args,
            bind_args(args.posonlyargs \o args.args \o args.kwonlyargs, st, 1)),
        "vararg")

\* the argument loop shared by visit_FunctionDef and visit_Lambda
bind_arguments(args, st) ==
    bind_optional_field(
        bind_optional_field(
            split_arguments(args,
                bind_args(args.posonlyargs \o args.args \o args.kwonlyargs, st, 1)),
            "vararg"),
        "kwarg")

\* Renamer.visit_Name with the lookup that scans from the outermost frame
visit_Name_outer_first(node, st) ==
    LET mapped == IF node.ctx = "Load" THEN lookup_outermost(st, node.id) ELSE None
        out == IF mapped # None THEN Name(mapped, node.ctx) ELSE node
    IN [node |-> out, st |-> Log(st, "name", node.id, node.ctx, out.id)]

\* Renamer.visit_Name that rewrites in every context
visit_Name_any_ctx(node, st) ==
    LET mapped == lookup(st, node.id)
        out == IF mapped # None THEN Name(mapped, node.ctx) ELSE node
    IN [node |-> out, st |-> Log(st, "name", node.id, node.ctx, out.id)]

\* Renamer.visit_Name that returns an attribute access on the alias
visit_Name_wrapped(node, st) ==
    LET mapped == IF node.ctx = "Load" THEN lookup(st, node.id) ELSE None
    IN IF mapped # None
       THEN [node |-> Attribute(Name(mapped, "Load"), "Load"),
             st |-> Log(st, "name", node.id, node.ctx, mapped)]
       ELSE [node |-> node, st |-> Log(st, "name", node.id, node.ctx, node.id)]

\* Renamer.visit_Name
visit_Name(node, st) ==
    LET mapped == IF node.ctx = "Load" THEN lookup(st, node.id) ELSE None
        out == IF mapped # None THEN Name(mapped, node.ctx) ELSE node
    IN [node |-> out, st |-> Log(st, "name", node.id, node.ctx, out.id)]

\* the loop over node.names that binds the used name and leaves the
\* declaration as it is
RECURSIVE import_names_not_written(_, _, _)
import_names_not_written(names, st, i) ==
    IF i > Len(names) THEN [nodes |-> names, st |-> st]
    ELSE LET a == names[i]
             used_name == IF a.asname # None THEN a.asname ELSE a.name[1]
         IN import_names_not_written(names, bind_name(st, used_name).st, i + 1)

\* Renamer.visit_Import / visit_ImportFrom: the loop over node.names
RECURSIVE import_names(_, _, _)
import_names(names, st, i) ==
    IF i > Len(names) THEN [nodes |-> names, st |-> st]
    ELSE LET a == names[i]
             used_name == IF a.asname # None THEN a.asname ELSE a.name[1]
         IN IF a.asname = None
            THEN LET b == bind_name(st, used_name)
                 IN import_names([names EXCEPT ![i].asname = b.ret], b.st, i + 1)
            ELSE import_names(names, bind_name(st, a.asname).st, i + 1)

visit_Import(node, st) ==
    LET r == import_names(node.names, st, 1)
    IN [node |-> [node EXCEPT !.names = r.nodes], st |-> r.st]

visit_ImportFrom(node, st) ==
    LET r == import_names(node.names, st, 1)
    IN [node |-> [node EXCEPT !.names = r.nodes], st |-> r.st]

RECURSIVE visit(_, _)
RECURSIVE visit_list(_, _, _)
RECURSIVE generic_visit(_, _, _)

\* [self.visit(n) for n in nodes]
visit_list(nodes, st, i) ==
    IF i > Len(nodes) THEN [nodes |-> nodes, st |-> st]
    ELSE LET r == visit(nodes[i], st)
         IN visit_list([nodes EXCEPT ![i] = r.node], r.st, i + 1)

\* ast.NodeTransformer.generic_visit: the fields from the i-th on
generic_visit(node, st, i) ==
    LET fields == ChildFields(node.kind)
    IN IF i > Len(fields) THEN [node |-> node, st |-> st]
       ELSE LET f == fields[i][1]
            IN IF fields[i][2]
               THEN LET r == visit_list(node[f], st, 1)
                    IN generic_visit([node EXCEPT ![f] = r.nodes], r.st, i + 1)
               ELSE LET r == visit(node[f], st)
                    IN generic_visit([node EXCEPT ![f] = r.node], r.st, i + 1)

\* a module frame filled, before the body is visited, with the names the
\* assignments of the body bind
RECURSIVE hoist_assignments(_, _, _)
hoist_assignments(body, st, i) ==
    IF i > Len(body) THEN st
    ELSE hoist_assignments(body,
            IF body[i].kind = "Assign"
            THEN bind_names(_collect_target_names(body[i].targets[1]), st, 1)
            ELSE st,
            i + 1)

\* visit_Module that resolves the loads against the bindings of the whole body
visit_Module_hoisting(node, st) ==
    LET r == generic_visit(node, hoist_assignments(node.body, push_scope(st), 1), 1)
    IN [node |-> r.node, st |-> pop_scope(r.st)]

visit_Module(node, st) ==
    LET r == generic_visit(node, push_scope(st), 1)
    IN [node |-> r.node, st |-> pop_scope(r.st)]

\* the steps of a handler, each on p = [node |-> the node, st |-> the state]:
\* node.name = self.bind_name(node.name), with b the result of bind_name
put_name(node, b) == [node |-> [node EXCEPT !.name = b.ret], st |-> b.st]

\* self.push_scope() and the binding of node.args
enter_scope(p) ==
    Put(p.node, "args", bind_arguments(p.node.args, push_scope(p.st)))

\* the binding of node.args in the frame already on top
enter_no_scope(p) == Put(p.node, "args", bind_arguments(p.node.args, p.st))

\* self.pop_scope(); return node
leave_scope(p) == [node |-> p.node, st |-> pop_scope(p.st)]

\* node.<field> = self.visit(node.<field>)
visit_field(p, field) == Put(p.node, field, visit(p.node[field], p.st))

\* if node.<field>: node.<field> = self.visit(node.<field>)
visit_optional_field(p, field) ==
    IF p.node[field] # NoneNode THEN visit_field(p, field) ELSE p

\* node.<field> = [self.visit(n) for n in node.<field>]
visit_field_list(p, field) ==
    PutList(p.node, field, visit_list(p.node[field], p.st, 1))

\* visit_FunctionDef without a frame of its own: the arguments are bound in
\* the enclosing frame
visit_FunctionDef_shared_frame(node, st) ==
    visit_field_list(
        visit_optional_field(
            visit_field_list(
                enter_no_scope(put_name(node, bind_name(st, node.name))),
                "decorator_list"),
            "returns"),
        "body")

visit_FunctionDef(node, st) ==
    leave_scope(
        visit_field_list(
            visit_optional_field(
                visit_field_list(
                    enter_scope(put_name(node, bind_name(st, node.name))),
                    "decorator_list"),
                "returns"),
            "body"))

visit_ClassDef(node, st) ==
    LET b == bind_name(st, node.name)
        s == visit_list(node.bases, push_scope(b.st), 1)
        k == visit_list(node.keywords, s.st, 1)
        y == visit_list(node.body, k.st, 1)
    IN [node |-> [node EXCEPT !.name = b.ret, !.bases = s.nodes,
                              !.keywords = k.nodes, !.body = y.nodes],
        st |-> pop_scope(y.st)]

visit_Lambda(node, st) ==
    leave_scope(visit_field(enter_scope([node |-> node, st |-> st]), "body"))

\* for t in node.targets: for n in self._collect_target_names(t): self.bind_name(n)
RECURSIVE bind_targets(_, _, _)
bind_targets(targets, st, i) ==
    IF i > Len(targets) THEN st
    ELSE bind_targets(targets,
                      bind_names(_collect_target_names(targets[i]), st, 1), i + 1)

\* visit_Assign that visits the value before it binds the targets
visit_Assign_value_first(node, st) ==
    LET v == visit(node.value, st)
        s1 == bind_targets(node.targets, v.st, 1)
        t == visit_list(node.targets, s1, 1)
    IN [node |-> [node EXCEPT !.targets = apply_elts(t.nodes, t.st, 1),
                              !.value = v.node],
        st |-> t.st]

visit_Assign(node, st) ==
    LET s1 == bind_targets(node.targets, st, 1)
        t == visit_list(node.targets, s1, 1)
        v == visit(node.value, t.st)
    IN [node |-> [node EXCEPT !.targets = apply_elts(t.nodes, t.st, 1),
                              !.value = v.node],
        st |-> v.st]

visit_AnnAssign(node, st) ==
    LET s1 == bind_names(_collect_target_names(node.target), st, 1)
        t == visit(node.target, s1)
        t1 == IF t.node.kind \in {"Tuple", "List", "Name"}
              THEN _apply_target_renames(t.node, t.st) ELSE t.node
        a == visit(node.annotation, t.st)
        v == visit(node.value, a.st)
    IN [node |-> [node EXCEPT !.target = t1, !.annotation = a.node,
                              !.value = v.node],
        st |-> v.st]

visit_AugAssign(node, st) ==
    LET s1 == bind_names(_collect_target_names(node.target), st, 1)
        t == visit(node.target, s1)
        v == visit(node.value, t.st)
    IN [node |-> [node EXCEPT !.target = _apply_target_renames(t.node, t.st),
                              !.value = v.node],
        st |-> v.st]

\* visit_For that binds the target before it visits the iterable
visit_For_bind_first(node, st) ==
    LET s1 == bind_names(_collect_target_names(node.target), st, 1)
        it == visit(node.iter, s1)
        t == visit(node.target, it.st)
        y == visit_list(node.body, push_scope(t.st), 1)
        e == visit_list(node.orelse, y.st, 1)
    IN [node |-> [node EXCEPT !.iter = it.node,
                              !.target = _apply_target_renames(t.node, t.st),
                              !.body = y.nodes, !.orelse = e.nodes],
        st |-> pop_scope(e.st)]

visit_For(node, st) ==
    LET it == visit(node.iter, st)
        s1 == bind_names(_collect_target_names(node.target), it.st, 1)
        t == visit(node.target, s1)
        y == visit_list(node.body, push_scope(t.st), 1)
        e == visit_list(node.orelse, y.st, 1)
    IN [node |-> [node EXCEPT !.iter = it.node,
                              !.target = _apply_target_renames(t.node, t.st),
                              !.body = y.nodes, !.orelse = e.nodes],
        st |-> pop_scope(e.st)]

\* for item in node.items: bind the names of item.optional_vars
RECURSIVE bind_items(_, _, _)
bind_items(items, st, i) ==
    IF i > Len(items) THEN st
    ELSE IF items[i].optional_vars # NoneNode
    THEN bind_items(items,
                    bind_names(_collect_target_names(items[i].optional_vars), st, 1),
                    i + 1)
    ELSE bind_items(items, st, i + 1)

visit_With(node, st) ==
    LET s1 == bind_items(node.items, st, 1)
        it == visit_list(node.items, s1, 1)
        y == visit_list(node.body, push_scope(it.st), 1)
    IN [node |-> [node EXCEPT !.items = it.nodes, !.body = y.nodes],
        st |-> pop_scope(y.st)]

\* visit_comprehension that binds the target before it visits the iterable
visit_comprehension_bind_first(node, st) ==
    LET s1 == bind_names(_collect_target_names(node.target), st, 1)
        it == visit(node.iter, s1)
        fs == visit_list(node.ifs, it.st, 1)
    IN [node |-> [node EXCEPT !.iter = it.node,
                              !.target = _apply_target_renames(node.target, s1),
                              !.ifs = fs.nodes],
        st |-> fs.st]

visit_comprehension(node, st) ==
    LET it == visit(node.iter, st)
        s1 == bind_names(_collect_target_names(node.target), it.st, 1)
        fs == visit_list(node.ifs, s1, 1)
    IN [node |-> [node EXCEPT !.iter = it.node,
                              !.target = _apply_target_renames(node.target, s1),
                              !.ifs = fs.nodes],
        st |-> fs.st]

\* visit_ListComp / visit_GeneratorExp / visit_SetComp
visit_ElementComp(node, st) ==
    LET g == visit_list(node.generators, push_scope(st), 1)
        e == visit(node.elt, g.st)
    IN [node |-> [node EXCEPT !.generators = g.nodes, !.elt = e.node],
        st |-> pop_scope(e.st)]

visit_DictComp(node, st) ==
    LET g == visit_list(node.generators, push_scope(st), 1)
        k == visit(node.key, g.st)
        v == visit(node.value, k.st)
    IN [node |-> [node EXCEPT !.generators = g.nodes, !.key = k.node,
                              !.value = v.node],
        st |-> pop_scope(v.st)]

\* ast.NodeVisitor.visit: dispatch on the node's class
visit(node, st) ==
    CASE node.kind = "None" -> [node |-> node, st |-> st]
      [] node.kind = "Module" -> visit_Module(node, st)
      [] node.kind \in {"FunctionDef", "AsyncFunctionDef"} -> visit_FunctionDef(node, st)
      [] node.kind = "ClassDef" -> visit_ClassDef(node, st)
      [] node.kind = "Lambda" -> visit_Lambda(node, st)
      [] node.kind = "Assign" -> visit_Assign(node, st)
      [] node.kind = "AnnAssign" -> visit_AnnAssign(node, st)
      [] node.kind = "AugAssign" -> visit_AugAssign(node, st)
      [] node.kind = "For" -> visit_For(node, st)
      [] node.kind = "With" -> visit_With(node, st)
      [] node.kind = "comprehension" -> visit_comprehension(node, st)
      [] node.kind \in {"ListComp", "GeneratorExp", "SetComp"} ->
            visit_ElementComp(node, st)
      [] node.kind = "DictComp" -> visit_DictComp(node, st)
      [] node.kind = "Import" -> visit_Import(node, st)
      [] node.kind = "ImportFrom" -> visit_ImportFrom(node, st)
      [] node.kind = "Name" -> visit_Name(node, st)
      [] OTHER -> generic_visit(node, st, 1)

(***************************************************************************)
(* State machines.  St is the traversal state of the Renamer instance;     *)
(* last records the last call.                                             *)
(***************************************************************************)
St == [scopes |-> scopes, rng |-> rng, minted |-> minted, trace |-> << >>]

Pre == [scopes |-> scopes, minted |-> minted, rng |-> rng]

NoCall == [op |-> "none", arg |-> None, ret |-> None, pre |-> None, trace |-> << >>]

Call(op, a, ret, trace) ==
    [op |-> op, arg |-> a, ret |-> ret, pre |-> Pre, trace |-> trace]

\* no instances side by side: the one instance is in the variables above
NoEngines == << >>

SelUnused ==
    /\ engines = NoEngines
    /\ NoObjects
    /\ name_map = << >>
    /\ sel_scopes = << >>
    /\ sel_random = 0

FullInit ==
    /\ scopes = << >>
    /\ rng \in GeneratorStates
    /\ minted = << >>
    /\ pc = "new"
    /\ last = NoCall
    /\ SelUnused

\* Renamer.__init__(seed): a new instance; the seed goes to the module `random`
Renamer_init ==
    /\ pc = "new"
    /\ \/ rng \in GeneratorStates /\ rng' = rng
       \/ \E seed \in Seeds : rng' = random_seed(seed)
    /\ scopes' = << >>
    /\ minted' = << >>
    /\ pc' = "new"
    /\ last' = NoCall
    /\ UNCHANGED <<name_map, sel_scopes, sel_random, engines, objects>>

\* the state of the instance after a call that left it in st
Becomes(st) ==
    /\ scopes' = st.scopes
    /\ rng' = st.rng
    /\ minted' = st.minted
    /\ UNCHANGED <<name_map, sel_scopes, sel_random, pc, engines, objects>>

PushScope ==
    /\ Len(scopes) < MaxDepth
    /\ LET st == push_scope(St)
       IN Becomes(st) /\ last' = Call("push_scope", None, None, st.trace)

\* list.pop() of an empty list raises IndexError: the visitors pop what they pushed
PopScope ==
    /\ scopes # << >>
    /\ LET st == pop_scope(St)
       IN Becomes(st) /\ last' = Call("pop_scope", None, None, st.trace)

BindName ==
    /\ Len(minted) < MaxMint
    /\ \E n \in Names :
          LET r == bind_name(St, n)
          IN Becomes(r.st) /\ last' = Call("bind_name", n, r.ret, r.st.trace)

Lookup ==
    \E n \in Names :
       /\ last' = Call("lookup", n, lookup(St, n), << >>)
       /\ UNCHANGED <<scopes, rng, minted, name_map, sel_scopes, sel_random, pc,
                      engines, objects>>

NameNodes == {Name(n, c) : n \in Names, c \in {"Load", "Store", "Del"}}

VisitName ==
    \E node \in NameNodes :
       LET r == visit_Name(node, St)
       IN Becomes(r.st) /\ last' = Call("visit_Name", node, r.node, r.st.trace)

ScopeNext ==
    \/ Renamer_init
    \/ PushScope
    \/ PopScope
    \/ BindName
    \/ Lookup
    \/ VisitName

SpecScope == FullInit /\ [][ScopeNext]_vars

(***************************************************************************)
(* Claims about the scope stack.                                           *)
(***************************************************************************)
\* the stack bind_name works on: an empty stack gets its first frame
Based(stack) == IF stack = << >> THEN <<EmptyFrame>> ELSE stack

Holders(stack, n) == {i \in 1 .. Len(stack) : n \in DOMAIN stack[i]}

Highest(S) == CHOOSE i \in S : \A j \in S : j <= i

\* C1: bind_name(n) on a name the innermost frame already holds returns the
\* alias that frame recorded, mints nothing and changes no frame; otherwise,
\* also when an outer frame holds n, it mints exactly one alias, records it
\* for n in the innermost frame alone and returns it.
C1_BindIdempotent ==
    last.op = "bind_name" =>
        LET base == Based(last.pre.scopes)
            top == Len(base)
            n == last.arg
        IN IF n \in DOMAIN base[top]
           THEN /\ last.ret = base[top][n]
                /\ scopes = base
                /\ minted = last.pre.minted
           ELSE /\ minted = Append(last.pre.minted, last.ret)
                /\ Len(scopes) = top
                /\ DOMAIN scopes[top] = DOMAIN base[top] \cup {n}
                /\ scopes[top][n] = last.ret
                /\ \A m \in DOMAIN base[top] : scopes[top][m] = base[top][m]
                /\ \A i \in 1 .. (top - 1) : scopes[i] = base[i]

\* a second bind of a name in an inner frame, an outer frame holding the name too
C1_Witness ==
    /\ last.op = "bind_name"
    /\ Len(last.pre.scopes) >= 2
    /\ last.arg \in DOMAIN last.pre.scopes[Len(last.pre.scopes)]
    /\ last.arg \in DOMAIN last.pre.scopes[1]
    /\ minted = last.pre.minted

\* C2: lookup(n) returns the alias of the innermost live frame that holds n,
\* none exactly when no live frame holds n, and changes nothing.
C2_LookupInnermost ==
    last.op = "lookup" =>
        LET H == Holders(scopes, last.arg)
        IN /\ (last.ret = None) <=> (H = {})
           /\ H # {} => last.ret = scopes[Highest(H)][last.arg]
           /\ scopes = last.pre.scopes
           /\ minted = last.pre.minted
           /\ rng = last.pre.rng

\* a lookup of a name two frames hold under different aliases
C2_Witness ==
    /\ last.op = "lookup"
    /\ Len(scopes) = 2
    /\ last.arg \in DOMAIN scopes[1]
    /\ last.arg \in DOMAIN scopes[2]
    /\ scopes[1][last.arg] # scopes[2][last.arg]
    /\ last.ret = scopes[2][last.arg]

\* C9: visit_Name of a reference in store or delete context, or of a load
\* whose name no live frame holds, returns the node with its identifier,
\* and leaves the scope stack and the generator as they were.
C9_StoreAndUnresolvedVerbatim ==
    (/\ last.op = "visit_Name"
     /\ \/ last.arg.ctx # "Load"
        \/ Holders(last.pre.scopes, last.arg.id) = {})
    => /\ last.ret = last.arg
       /\ scopes = last.pre.scopes
       /\ minted = last.pre.minted
       /\ rng = last.pre.rng

\* a store reference to a name that a live frame holds, returned as it was
C9_Witness ==
    /\ last.op = "visit_Name"
    /\ last.arg.ctx = "Store"
    /\ Holders(scopes, last.arg.id) # {}
    /\ last.ret.id = last.arg.id

\* C10 as stated: no alias the generator returns equals one it returned
\* earlier in the traversal.
C10_AliasesNeverCollide ==
    \A i, j \in 1 .. Len(minted) : i # j => minted[i] # minted[j]

(***************************************************************************)
(* Input programs of the traversals.                                       *)
(***************************************************************************)
NoArgs == arguments(<< >>, << >>, << >>, NoneNode, NoneNode, << >>)
Args1(p) == arguments(<< >>, <<arg(p)>>, << >>, NoneNode, NoneNode, << >>)
Def(name, p, body) == FunctionDef(name, Args1(p), << >>, body)
Incr(t, a) == Assign(<<Store(t)>>, BinOp(Load(a), Constant))
Clause(t, it, ifs) == comprehension(Store(t), Load(it), ifs)
ImportOf(n) == Import(<<alias(<<n>>, None)>>)

LeafStmts ==
    {Expr(Load(n)) : n \in Names}
    \cup {Incr(t, a) : t \in {"foo", "x"}, a \in {"foo", "x"}}
    \cup {AugAssign(Store("x"), Load(a)) : a \in {"x", "y"}}
    \cup {Assign(<<Tuple(<<Store("x"), Store("y")>>, "Store")>>, Load("y")),
          Assign(<<Attribute(Load("x"), "Store")>>, Load("x")),
          AnnAssign(Store("y"), Load("foo"), Load("y")),
          ImportOf("foo"),
          Import(<<alias(<<"foo", "bar">>, "x")>>),
          ImportFrom(<<alias(<<"y">>, None)>>)}

ExprStmts ==
    {Expr(ListComp(Load("y"), <<Clause("y", "y", <<Load("y")>>)>>)),
     Expr(ListComp(Load("x"), <<Clause("x", "foo", << >>)>>)),
     Expr(GeneratorExp(Load("y"), <<Clause("x", "y", << >>), Clause("y", "x", << >>)>>)),
     Expr(SetComp(Load("foo"), <<Clause("foo", "x", <<Load("x")>>)>>)),
     Expr(DictComp(Load("x"), Load("y"), <<Clause("x", "x", << >>)>>)),
     Expr(Lambda(Args1("x"), BinOp(Load("x"), Load("y"))))}

CompoundStmts ==
    {Def("y", p, <<b>>) : p \in {"foo", "x"},
                          b \in {Expr(Load("foo")), Expr(Load("x")), Incr("x", "foo")}}
    \cup {Def("foo", "y", <<For(Store("x"), Load("x"), <<Expr(Load("x"))>>),
                           Expr(Load("y"))>>),
          Def("x", "x", <<Def("y", "x", <<Expr(Load("x"))>>), Expr(Load("x"))>>),
          For(Store("x"), Load("x"), <<Expr(Load("x"))>>),
          For(Store("y"), Load("foo"), <<Incr("x", "y"), Expr(Load("x"))>>),
          ClassDef("x", <<Load("foo")>>, <<Incr("foo", "foo"), Expr(Load("x"))>>),
          With(<<withitem(Load("foo"), Store("x"))>>, <<Expr(Load("x"))>>)}

TopStmts == LeafStmts \cup ExprStmts \cup CompoundStmts

\* the statements that set up the bindings the last statement of a module meets
PrefixStmts ==
    {Incr("x", "x"), Incr("foo", "x"), ImportOf("foo"),
     Import(<<alias(<<"foo", "bar">>, "x")>>),
     ImportFrom(<<alias(<<"y">>, None)>>),
     Assign(<<Tuple(<<Store("x"), Store("y")>>, "Store")>>, Load("y")),
     Def("y", "foo", <<Expr(Load("x"))>>),
     Def("y", "x", <<Expr(Load("foo"))>>),
     For(Store("y"), Load("foo"), <<Incr("x", "y"), Expr(Load("x"))>>),
     ClassDef("x", <<Load("foo")>>, <<Incr("foo", "foo"), Expr(Load("x"))>>)}

\* the statement lists of at most n of these statements
RECURSIVE Prefixes(_)
Prefixes(n) ==
    IF n = 0 THEN {<< >>}
    ELSE LET shorter == Prefixes(n - 1)
         IN shorter \cup {Append(b, s) : b \in shorter, s \in PrefixStmts}

\* statements per module
MaxBody == 2

Modules ==
    {Module(<< >>)}
    \cup {Module(Append(b, s)) : b \in Prefixes(MaxBody - 1), s \in TopStmts}

\* import n; def f(p): u; v
ImportScenarios ==
    {Module(<<ImportOf(i), Def("f", p, <<Expr(Load(u))>>), Expr(Load(v))>>) :
        i \in {"foo", "x"}, p \in {"foo", "x"}, u \in {"foo", "x"}, v \in {"foo", "x"}}

CompKinds == {"ListComp", "GeneratorExp", "SetComp", "DictComp"}

Comp(kind, e, gens) ==
    IF kind = "DictComp" THEN DictComp(Load(e), Load(e), gens)
    ELSE [kind |-> kind, elt |-> Load(e), generators |-> gens]

Generators ==
    {<<Clause(t, i, ifs)>> : t \in {"x", "y"}, i \in {"x", "y"},
                             ifs \in {<< >>, <<Load("x")>>}}
    \cup {<<Clause(t1, i1, << >>), Clause(t2, i2, <<Load("y")>>)>> :
             t1 \in {"x", "y"}, i1 \in {"x", "y"},
             t2 \in {"x", "y"}, i2 \in {"x", "y"}}

\* s; <comprehension>; n  with s binding a name of the comprehension or not
CompScenarios ==
    {Module(<<s, Expr(Comp(k, e, g)), Expr(Load(n))>>) :
        s \in {Incr("x", "x"), Incr("y", "foo")}, k \in CompKinds,
        e \in {"x", "y"}, g \in Generators, n \in {"x", "y"}}

(***************************************************************************)
(* The full policy: Renamer(seed).visit(tree).                             *)
(***************************************************************************)
VisitTree(tree) ==
    /\ pc = "new"
    /\ LET r == visit(tree, St)
       IN /\ scopes' = r.st.scopes
          /\ rng' = r.st.rng
          /\ minted' = r.st.minted
          /\ last' = Call("visit", tree, r.node, r.st.trace)
    /\ pc' = "done"
    /\ UNCHANGED <<name_map, sel_scopes, sel_random, engines, objects>>

VisitModule == \E tree \in Modules : VisitTree(tree)

VisitImportScenario == \E tree \in ImportScenarios : VisitTree(tree)

VisitCompScenario == \E tree \in CompScenarios : VisitTree(tree)

\* p; for t in i: u; v  with p binding a name of the loop or not
ForScenarios ==
    {Module(<<p, For(Store(t), Load(i), <<Expr(Load(u))>>), Expr(Load(v))>>) :
        p \in {Expr(Load("y")), Incr("x", "x"), ImportOf("foo")},
        t \in {"foo", "x"}, i \in {"foo", "x"}, u \in {"foo", "x"},
        v \in {"foo", "x"}}

VisitForScenario == \E tree \in ForScenarios : VisitTree(tree)

\* parameter lists with every kind of parameter: positional-only, regular,
\* keyword-only, *a and **k
ParamLists ==
    {arguments(po, ar, kw, va, ka, << >>) :
        po \in {<< >>, <<arg("x")>>}, ar \in {<< >>, <<arg("y")>>},
        kw \in {<< >>, <<arg("foo")>>}, va \in {NoneNode, arg("a")},
        ka \in {NoneNode, arg("k")}}

\* def f(<parameters>): u,  lambda <parameters>: u  and
\* class f(b, metaclass=c): x = y + 1; u
Definitions ==
    {FunctionDef("f", a, << >>, <<Expr(Load(u))>>) :
        a \in ParamLists, u \in {"x", "foo", "k"}}
    \cup {Expr(Lambda(a, Load(u))) : a \in ParamLists, u \in {"x", "foo", "k"}}
    \cup {[ClassDef("f", <<Load(b)>>, <<Incr("x", "y"), Expr(Load(u))>>)
             EXCEPT !.keywords = <<keyword(Load(c))>>] :
             b \in {"x", "f"}, c \in {"x", "y"}, u \in {"x", "y"}}

\* p; <a definition>; v
DefinitionScenarios ==
    {Module(<<p, d, Expr(Load(v))>>) :
        p \in {Incr("x", "y"), Expr(Load("y"))}, d \in Definitions,
        v \in {"x", "f"}}

VisitDefinitionScenario == \E tree \in DefinitionScenarios : VisitTree(tree)

\* the one parameter p with the default d
DefaultArgs(p, d) ==
    arguments(<< >>, <<arg(p)>>, << >>, NoneNode, NoneNode, <<Load(d)>>)

\* x = y + 1; <@e def f(p=d): u,  lambda p=d: u  or  @e class f: u>; v
DecoratedScenarios ==
    {Module(<<Incr("x", "y"), s, Expr(Load(v))>>) :
        s \in UNION {{FunctionDef("f", DefaultArgs(p, d), <<Load(e)>>, <<Expr(Load(u))>>),
                      Expr(Lambda(DefaultArgs(p, d), Load(u))),
                      [ClassDef("f", << >>, <<Expr(Load(u))>>)
                          EXCEPT !.decorator_list = <<Load(e)>>]} :
                     p \in {"x", "y"}, d \in {"x", "y"}, e \in {"x", "y"},
                     u \in {"x", "y"}},
        v \in {"x", "f"}}

VisitDecoratedScenario == \E tree \in DecoratedScenarios : VisitTree(tree)

\* assignment targets: (a, [b, o.attr, o[i]]), (([a],),), o[i] and o.attr
NestedTargets ==
    {Tuple(<<Store(a), List(<<Store(b), Attribute(Load(o), "Store"),
                              Subscript(Load(o), Load(i), "Store")>>, "Store")>>,
           "Store") :
        a \in {"x", "foo"}, b \in {"x", "foo"}, o \in {"x", "y"}, i \in {"x", "y"}}
    \cup {Tuple(<<Tuple(<<List(<<Store(a)>>, "Store")>>, "Store")>>, "Store") :
            a \in {"x", "foo"}}
    \cup {Subscript(Load(o), Load(i), "Store") : o \in {"x", "y"}, i \in {"x", "y"}}
    \cup {Attribute(Load(o), "Store") : o \in {"x", "y"}}

\* p; <target> = w; v
TargetScenarios ==
    {Module(<<p, Assign(<<t>>, Load(w)), Expr(Load(v))>>) :
        p \in {Incr("x", "y"), Expr(Load("y"))}, t \in NestedTargets,
        w \in {"x", "y"}, v \in {"x", "foo"}}

VisitTargetScenario == \E tree \in TargetScenarios : VisitTree(tree)

\* p; with c as t: u; v
WithScenarios ==
    {Module(<<p, With(<<withitem(Load(c), Store(t))>>, <<Expr(Load(u))>>),
              Expr(Load(v))>>) :
        p \in {Incr("x", "y"), Expr(Load("y"))}, c \in {"x", "y"},
        t \in {"x", "foo"}, u \in {"x", "foo"}, v \in {"x", "foo"}}

VisitWithScenario == \E tree \in WithScenarios : VisitTree(tree)

\* import n, import n.b and from .. import n, each with or without "as y"
ImportStmts ==
    {Import(<<alias(nm, a)>>) :
        nm \in {<<"foo">>, <<"x">>, <<"foo", "b">>}, a \in {None, "y"}}
    \cup {ImportFrom(<<alias(<<n>>, a)>>) : n \in {"foo", "x"}, a \in {None, "y"}}

\* <an import>; <an import>; v
ImportPairScenarios ==
    {Module(<<i1, i2, Expr(Load(v))>>) :
        i1 \in ImportStmts, i2 \in ImportStmts, v \in Names}

VisitImportPairScenario == \E tree \in ImportPairScenarios : VisitTree(tree)

\* x = y + 1; def f(): global g; t = a + 1; v    and
\* def f(x): def g(): nonlocal n; t = a + 1; v
DeclarationScenarios ==
    {Module(<<Incr("x", "y"),
              FunctionDef("f", NoArgs, << >>, <<Global(<<g>>), Incr(t, a)>>),
              Expr(Load(v))>>) :
        g \in {"x", "y"}, t \in {"x", "y"}, a \in {"x", "y"}, v \in {"x", "y"}}
    \cup {Module(<<Def("f", "x",
                      <<FunctionDef("g", NoArgs, << >>,
                                    <<Nonlocal(<<"x">>), Incr(t, a)>>)>>),
                   Expr(Load(v))>>) :
            t \in {"x", "y"}, a \in {"x", "y"}, v \in {"x", "y"}}

VisitDeclarationScenario == \E tree \in DeclarationScenarios : VisitTree(tree)

\* x = y + 1; for foo in y: <t = a + 1 or t += a>; v   and the same body in
\* with y: ..
BlockScenarios ==
    {Module(<<Incr("x", "y"), s, Expr(Load(v))>>) :
        s \in UNION {{For(Store("foo"), Load("y"), <<b>>),
                      With(<<withitem(Load("y"), NoneNode)>>, <<b>>)} :
                     b \in {Incr(t, a) : t \in {"x", "y"}, a \in {"x", "y"}}
                           \cup {AugAssign(Store(t), Load(a)) :
                                    t \in {"x", "y"}, a \in {"x", "y"}}},
        v \in {"x", "y"}}

VisitBlockScenario == \E tree \in BlockScenarios : VisitTree(tree)

FullNext ==
    \/ Renamer_init
    \/ VisitModule
    \/ VisitImportScenario
    \/ VisitCompScenario
    \/ VisitForScenario
    \/ VisitDefinitionScenario
    \/ VisitDecoratedScenario
    \/ VisitTargetScenario
    \/ VisitWithScenario
    \/ VisitImportPairScenario
    \/ VisitDeclarationScenario
    \/ VisitBlockScenario

SpecFull == FullInit /\ [][FullNext]_vars

(***************************************************************************)
(* Claims about the full policy.                                           *)
(***************************************************************************)
Trace == last.trace

\* the alias of the innermost frame of stack that holds n, or n itself
Resolve(stack, n) ==
    IF Holders(stack, n) = {} THEN n ELSE stack[Highest(Holders(stack, n))][n]

\* the scope stack before the k-th call of the trace
ScopesBefore(k) == IF k = 1 THEN last.pre.scopes ELSE Trace[k - 1].scopes

\* the push that created the frame the j-th call of the trace pops
PushOf(j) ==
    Highest({i \in 1 .. (j - 1) :
                /\ Trace[i].ev = "push"
                /\ Len(Trace[i].scopes) = Len(Trace[j].scopes) + 1})

IsLoad(e) == e.ev = "name" /\ e.ctx = "Load"

\* C3: every load visited resolves to the alias of the innermost live frame
\* that holds its name, never to an outer alias; and a pop leaves the stack
\* exactly as it was before the popped frame was pushed, so what was bound in
\* the frame is unreachable afterwards.
C3_ShadowCorrect ==
    last.op = "visit" =>
        /\ \A k \in 1 .. Len(Trace) :
              IsLoad(Trace[k]) => Trace[k].new = Resolve(Trace[k].scopes, Trace[k].id)
        /\ \A j \in 1 .. Len(Trace) :
              Trace[j].ev = "pop" => Trace[j].scopes = ScopesBefore(PushOf(j))

\* a load resolved to an inner alias that shadows a different outer alias,
\* and after the pop of that frame a load of the name resolved to the outer alias
C3_Witness ==
    /\ last.op = "visit"
    /\ \E k, m \in 1 .. Len(Trace) :
          /\ k < m
          /\ IsLoad(Trace[k]) /\ IsLoad(Trace[m])
          /\ Trace[k].id = Trace[m].id
          /\ Len(Trace[m].scopes) < Len(Trace[k].scopes)
          /\ Cardinality(Holders(Trace[k].scopes, Trace[k].id)) >= 2
          /\ Len(Trace[k].scopes) \in Holders(Trace[k].scopes, Trace[k].id)
          /\ Trace[m].new # Trace[k].new
          /\ Trace[m].new = Trace[m].scopes[Len(Trace[m].scopes)][Trace[m].id]
          /\ Trace[m].new = Trace[k].scopes[Len(Trace[m].scopes)][Trace[k].id]

\* the statements of a body paired with what the traversal made of them,
\* the statements nested in them included
RECURSIVE StmtPairs(_, _)
StmtPairs(ins, outs) ==
    UNION {{<<ins[i], outs[i]>>}
           \cup (IF ins[i].kind \in {"FunctionDef", "ClassDef", "For", "With"}
                 THEN StmtPairs(ins[i].body, outs[i].body) ELSE {}) :
           i \in 1 .. Len(ins)}

\* the name references of an expression, in the order of its fields
RECURSIVE NamesIn(_)
NamesIn(e) ==
    CASE e.kind = "Name" -> <<e>>
      [] e.kind = "BinOp" -> NamesIn(e.left) \o NamesIn(e.right)
      [] e.kind = "Attribute" -> NamesIn(e.value)
      [] OTHER -> << >>

AssignTarget(s) == IF s.kind = "Assign" THEN s.targets[1] ELSE s.target

Range(f) == {f[i] : i \in DOMAIN f}

\* C4: in a plain, annotated or augmented assignment to a name, the target
\* is rewritten to a minted alias and every load of the target's name in the
\* value is rewritten to that same alias.
C4_SelfReference ==
    last.op = "visit" =>
        \A p \in StmtPairs(last.arg.body, last.ret.body) :
           (/\ p[1].kind \in {"Assign", "AnnAssign", "AugAssign"}
            /\ AssignTarget(p[1]).kind = "Name")
           => LET t == AssignTarget(p[1]).id
                  new == AssignTarget(p[2]).id
                  vin == NamesIn(p[1].value)
                  vout == NamesIn(p[2].value)
              IN /\ new \in Range(minted)
                 /\ \A k \in 1 .. Len(vin) : vin[k] = Load(t) => vout[k].id = new

\* x = x + 1 as the first statement of a module, one alias on both sides
C4_Witness ==
    /\ last.op = "visit"
    /\ Len(last.arg.body) >= 1
    /\ last.arg.body[1] = Incr("x", "x")
    /\ last.ret.body[1].targets[1].id = last.ret.body[1].value.left.id
    /\ last.ret.body[1].targets[1].id # "x"

\* the module  import i; def f(p): u; v  with i = p = u = v
IsImportScenario(tree) ==
    /\ tree \in ImportScenarios
    /\ tree.body[2].args.args[1].arg = tree.body[1].names[1].name[1]
    /\ tree.body[2].body[1].value.id = tree.body[1].names[1].name[1]
    /\ tree.body[3].value.id = tree.body[1].names[1].name[1]

\* C6: for  import foo; def f(foo): foo; foo  the parameter and the load in
\* the body carry the alias bound for foo in the function's frame, the import
\* carries as its asname the alias bound for foo in the module's frame, and
\* the load after the function carries the import's alias.
C6_ImportAndParameter ==
    (last.op = "visit" /\ IsImportScenario(last.arg)) =>
        LET n == last.arg.body[1].names[1].name[1]
            imp == last.ret.body[1].names[1].asname
            par == last.ret.body[2].args.args[1].arg
        IN /\ \E k \in 1 .. Len(Trace) :
                 /\ Trace[k].ev = "bind" /\ Trace[k].id = n
                 /\ Len(Trace[k].scopes) = 1
                 /\ Trace[k].scopes[1][n] = imp
           /\ \E k \in 1 .. Len(Trace) :
                 /\ Trace[k].ev = "bind" /\ Trace[k].id = n
                 /\ Len(Trace[k].scopes) = 2
                 /\ Trace[k].scopes[2][n] = par
                 /\ Trace[k].scopes[1][n] = imp
           /\ last.ret.body[2].body[1].value.id = par
           /\ last.ret.body[3].value.id = imp
           /\ minted = <<imp, last.ret.body[2].name, par>>

\* the scenario with two different aliases for the import and the parameter
C6_Witness ==
    /\ last.op = "visit"
    /\ IsImportScenario(last.arg)
    /\ last.arg.body[1].names[1].name[1] = "foo"
    /\ last.ret.body[2].body[1].value.id = last.ret.body[2].args.args[1].arg
    /\ last.ret.body[3].value.id = last.ret.body[1].names[1].asname
    /\ last.ret.body[3].value.id # last.ret.body[2].body[1].value.id

\* the generators of the comprehension of a module  s; <comprehension>; n
CompOf(tree) == tree.body[2].value

\* the calls of the trace made while the comprehension's frame is live
InnerPushes == {k \in 1 .. Len(Trace) : Trace[k].ev = "push" /\ Len(Trace[k].scopes) >= 2}

\* the names the clauses 1 .. j of the generators gens bind
BoundBy(gens, j) == {gens[i].target.id : i \in 1 .. j}

\* what a load of n becomes: the alias of its target when a clause among
\* 1 .. j binds n, else what the enclosing frame module gives
CompResolve(n, gens, outs, j, module) ==
    IF n \in BoundBy(gens, j)
    THEN outs[CHOOSE i \in 1 .. j : gens[i].target.id = n].target.id
    ELSE IF n \in DOMAIN module THEN module[n] ELSE n

\* C7: a comprehension gets exactly one frame for all its clauses; the
\* iterable of a clause resolves with only the targets of the clauses before
\* it bound (the first against the enclosing frames alone); the targets are
\* renamed to minted aliases; the filters of a clause, the later clauses and
\* the element resolve the targets to those aliases; and after the
\* comprehension a load resolves against the enclosing frames as before it.
C7_ComprehensionScope ==
    (last.op = "visit" /\ last.arg \in CompScenarios) =>
        LET gens == CompOf(last.arg).generators
            outs == CompOf(last.ret).generators
            K == Len(gens)
            push == CHOOSE k \in InnerPushes : TRUE
            module == Trace[push].scopes[1]
            elts == IF CompOf(last.arg).kind = "DictComp" THEN {"key", "value"}
                    ELSE {"elt"}
        IN /\ Cardinality(InnerPushes) = 1
           /\ Len(Trace[push].scopes) = 2
           /\ \A j \in 1 .. K :
                 /\ outs[j].iter.id = CompResolve(gens[j].iter.id, gens, outs, j - 1, module)
                 /\ outs[j].target.id \in Range(minted)
                 /\ outs[j].target.id = CompResolve(gens[j].target.id, gens, outs, j, module)
                 /\ \A f \in 1 .. Len(gens[j].ifs) :
                       outs[j].ifs[f].id =
                           CompResolve(gens[j].ifs[f].id, gens, outs, j, module)
           /\ \A f \in elts :
                 CompOf(last.ret)[f].id =
                     CompResolve(CompOf(last.arg)[f].id, gens, outs, K, module)
           /\ last.ret.body[3].value.id =
                  CompResolve(last.arg.body[3].value.id, gens, outs, 0, module)

\* x = x + 1; [x for x in x if x]; x  with the iterable and the last load on
\* the module's alias and the element and the filter on the target's alias
C7_Witness ==
    /\ last.op = "visit"
    /\ last.arg \in CompScenarios
    /\ last.arg.body[1] = Incr("x", "x")
    /\ CompOf(last.arg) = ListComp(Load("x"), <<Clause("x", "x", <<Load("x")>>)>>)
    /\ last.arg.body[3] = Expr(Load("x"))
    /\ CompOf(last.ret).generators[1].iter.id = last.ret.body[1].targets[1].id
    /\ last.ret.body[3].value.id = last.ret.body[1].targets[1].id
    /\ CompOf(last.ret).elt.id = CompOf(last.ret).generators[1].target.id
    /\ CompOf(last.ret).generators[1].ifs[1].id = CompOf(last.ret).elt.id
    /\ CompOf(last.ret).elt.id # last.ret.body[3].value.id

\* the calls of the trace that bind n in the module's frame
ModuleBinds(n) ==
    {k \in 1 .. Len(Trace) :
        Trace[k].ev = "bind" /\ Trace[k].id = n /\ Len(Trace[k].scopes) = 1}

\* C8 as stated: a load inside a nested frame, of a name that no frame
\* between holds and that the traversal binds in the module's frame, is
\* rewritten to the alias of that binding, wherever the binding's site is.
C8_LoadsOfModuleBindingsRewritten ==
    last.op = "visit" =>
        \A k \in 1 .. Len(Trace) :
           (/\ IsLoad(Trace[k])
            /\ Len(Trace[k].scopes) >= 2
            /\ Holders(Trace[k].scopes, Trace[k].id) \subseteq {1}
            /\ ModuleBinds(Trace[k].id) # {})
           => \E b \in ModuleBinds(Trace[k].id) : Trace[k].new = Trace[b].new

(***************************************************************************)
(* ImportRenamer: the selective policy.  A traversal state st is a record  *)
(* [name_map, scopes, random, minted, trace]; scopes is a list of sets.    *)
(***************************************************************************)
\* hashlib.md5(name.encode("utf8")).hexdigest()[:6]
MD5Prefix(name) ==
    CASE name = "foo" -> "acbd18"
      [] name = "x" -> "9dd4e4"
      [] name = "y" -> "415290"
      [] name = "f" -> "8fa14c"

\* ImportRenamer._make_alias: [alias, st]
_make_alias(st, name) ==
    LET r == random_choices(st.random, Lowercase, AliasLen)
        new == "_" \o MD5Prefix(name) \o r.str
    IN [alias |-> new,
        st |-> [st EXCEPT !.random = r.rng, !.minted = Append(@, new)]]

SelLog(st, ev, id, ctx, new) ==
    [st EXCEPT !.trace = Append(@, [ev |-> ev, id |-> id, ctx |-> ctx, new |-> new,
                                    scopes |-> st.scopes, name_map |-> st.name_map])]

_push_scope(st) == SelLog([st EXCEPT !.scopes = Append(@, {})], "push", None, None, None)

_pop_scope(st) ==
    SelLog([st EXCEPT !.scopes = SubSeq(@, 1, Len(@) - 1)], "pop", None, None, None)

_bind_name(st, name) ==
    LET s1 == IF st.scopes = << >> THEN _push_scope(st) ELSE st
    IN SelLog([s1 EXCEPT !.scopes[Len(s1.scopes)] = @ \cup {name}],
              "bind", name, None, None)

_is_bound_in_innermost_scope(st, name) ==
    st.scopes # << >> /\ name \in st.scopes[Len(st.scopes)]

_is_bound_in_any_scope(st, name) ==
    \E i \in 1 .. Len(st.scopes) : name \in st.scopes[i]

\* ImportRenamer._target_names
RECURSIVE _target_names(_)
RECURSIVE target_names_elts(_, _)
target_names_elts(elts, i) ==
    IF i > Len(elts) THEN << >>
    ELSE _target_names(elts[i]) \o target_names_elts(elts, i + 1)

_target_names(target) ==
    IF target.kind = "Name" THEN <<target.id>>
    ELSE IF target.kind \in {"Tuple", "List"} THEN target_names_elts(target.elts, 1)
    ELSE << >>

\* for n in names: self._bind_name(n)
RECURSIVE IR_bind_names(_, _, _)
IR_bind_names(names, st, i) ==
    IF i > Len(names) THEN st
    ELSE IR_bind_names(names, _bind_name(st, names[i]), i + 1)

\* for arg in args: self._bind_name(arg.arg)
RECURSIVE IR_bind_args(_, _, _)
IR_bind_args(args, st, i) ==
    IF i > Len(args) THEN st
    ELSE IR_bind_args(args, _bind_name(st, args[i].arg), i + 1)

\* the argument loop of ImportRenamer.visit_FunctionDef
IR_bind_arguments(args, st) ==
    LET a == IR_bind_args(args.args \o args.posonlyargs \o args.kwonlyargs, st, 1)
        v == IF args.vararg # NoneNode THEN _bind_name(a, args.vararg.arg) ELSE a
    IN IF args.kwarg # NoneNode THEN _bind_name(v, args.kwarg.arg) ELSE v

\* ImportRenamer.visit_Import: the loop over node.names
RECURSIVE IR_import_names(_, _, _)
IR_import_names(names, st, i) ==
    IF i > Len(names) THEN [nodes |-> names, st |-> st]
    ELSE LET a == names[i]
             used_name == IF a.asname # None THEN a.asname ELSE a.name[1]
         IN IF a.asname = None
            THEN LET m == _make_alias(st, used_name)
                     s1 == [m.st EXCEPT !.name_map = (used_name :> m.alias) @@ @]
                 IN IR_import_names([names EXCEPT ![i].asname = m.alias],
                                    _bind_name(s1, m.alias), i + 1)
            ELSE LET s1 == [st EXCEPT !.name_map = (used_name :> a.asname) @@ @]
                 IN IR_import_names(names, _bind_name(s1, a.asname), i + 1)

IR_visit_Import(node, st) ==
    LET r == IR_import_names(node.names, st, 1)
    IN [node |-> [node EXCEPT !.names = r.nodes], st |-> r.st]

\* ImportRenamer.visit_ImportFrom: the loop over node.names (alias.name has
\* one component)
RECURSIVE IR_importfrom_names(_, _, _)
IR_importfrom_names(names, st, i) ==
    IF i > Len(names) THEN [nodes |-> names, st |-> st]
    ELSE LET a == names[i]
         IN IF a.asname = None
            THEN LET m == _make_alias(st, a.name[1])
                     s1 == [m.st EXCEPT !.name_map = (a.name[1] :> m.alias) @@ @]
                 IN IR_importfrom_names([names EXCEPT ![i].asname = m.alias],
                                        _bind_name(s1, m.alias), i + 1)
            ELSE LET s1 == [st EXCEPT !.name_map = (a.name[1] :> a.asname) @@ @]
                 IN IR_importfrom_names(names, _bind_name(s1, a.asname), i + 1)

IR_visit_ImportFrom(node, st) ==
    LET r == IR_importfrom_names(node.names, st, 1)
    IN [node |-> [node EXCEPT !.names = r.nodes], st |-> r.st]

\* ImportRenamer.visit_Name with a shadow check of the innermost scope only
IR_visit_Name_innermost(node, st) ==
    LET out == IF /\ node.ctx = "Load"
                  /\ node.id \in DOMAIN st.name_map
                  /\ ~ _is_bound_in_innermost_scope(st, node.id)
               THEN Name(st.name_map[node.id], node.ctx) ELSE node
    IN [node |-> out, st |-> SelLog(st, "name", node.id, node.ctx, out.id)]

IR_visit_Name(node, st) ==
    LET out == IF /\ node.ctx = "Load"
                  /\ node.id \in DOMAIN st.name_map
                  /\ ~ _is_bound_in_any_scope(st, node.id)
               THEN Name(st.name_map[node.id], node.ctx) ELSE node
    IN [node |-> out, st |-> SelLog(st, "name", node.id, node.ctx, out.id)]

\* ImportRenamer.visit_Global / visit_Nonlocal
IR_visit_Global(node, st) ==
    [node |-> [node EXCEPT !.names =
                  [i \in 1 .. Len(node.names) |->
                      IF node.names[i] \in DOMAIN st.name_map
                      THEN st.name_map[node.names[i]] ELSE node.names[i]]],
     st |-> st]

RECURSIVE IR_visit(_, _)
RECURSIVE IR_visit_list(_, _, _)
RECURSIVE IR_generic_visit(_, _, _)

IR_visit_list(nodes, st, i) ==
    IF i > Len(nodes) THEN [nodes |-> nodes, st |-> st]
    ELSE LET r == IR_visit(nodes[i], st)
         IN IR_visit_list([nodes EXCEPT ![i] = r.node], r.st, i + 1)

IR_generic_visit(node, st, i) ==
    LET fields == ChildFields(node.kind)
    IN IF i > Len(fields) THEN [node |-> node, st |-> st]
       ELSE LET f == fields[i][1]
            IN IF fields[i][2]
               THEN LET r == IR_visit_list(node[f], st, 1)
                    IN IR_generic_visit([node EXCEPT ![f] = r.nodes], r.st, i + 1)
               ELSE LET r == IR_visit(node[f], st)
                    IN IR_generic_visit([node EXCEPT ![f] = r.node], r.st, i + 1)

\* ImportRenamer.visit_Module: the scope it pushes is not popped
IR_visit_Module(node, st) == IR_generic_visit(node, _push_scope(st), 1)

IR_visit_FunctionDef(node, st) ==
    LET a == IR_bind_arguments(node.args, _push_scope(_bind_name(st, node.name)))
        d == IR_visit_list(node.decorator_list, a, 1)
        y == IR_visit_list(node.body, d.st, 1)
    IN [node |-> [node EXCEPT !.decorator_list = d.nodes, !.body = y.nodes],
        st |-> _pop_scope(y.st)]

IR_visit_ClassDef(node, st) ==
    LET s == IR_visit_list(node.bases, _push_scope(_bind_name(st, node.name)), 1)
        k == IR_visit_list(node.keywords, s.st, 1)
        y == IR_visit_list(node.body, k.st, 1)
    IN [node |-> [node EXCEPT !.bases = s.nodes, !.keywords = k.nodes,
                              !.body = y.nodes],
        st |-> _pop_scope(y.st)]

\* for target in node.targets: for n in self._target_names(target): bind
RECURSIVE IR_bind_targets(_, _, _)
IR_bind_targets(targets, st, i) ==
    IF i > Len(targets) THEN st
    ELSE IR_bind_targets(targets, IR_bind_names(_target_names(targets[i]), st, 1), i + 1)

IR_visit_Assign(node, st) ==
    LET t == IR_visit_list(node.targets, IR_bind_targets(node.targets, st, 1), 1)
        v == IR_visit(node.value, t.st)
    IN [node |-> [node EXCEPT !.targets = t.nodes, !.value = v.node], st |-> v.st]

IR_visit_AnnAssign(node, st) ==
    LET t == IR_visit(node.target, IR_bind_names(_target_names(node.target), st, 1))
        a == IR_visit(node.annotation, t.st)
        v == IR_visit(node.value, a.st)
    IN [node |-> [node EXCEPT !.target = t.node, !.annotation = a.node,
                              !.value = v.node],
        st |-> v.st]

IR_visit_AugAssign(node, st) ==
    LET t == IR_visit(node.target, IR_bind_names(_target_names(node.target), st, 1))
        v == IR_visit(node.value, t.st)
    IN [node |-> [node EXCEPT !.target = t.node, !.value = v.node], st |-> v.st]

IR_visit_For(node, st) ==
    LET t == IR_visit(node.target, IR_bind_names(_target_names(node.target), st, 1))
        it == IR_visit(node.iter, t.st)
        y == IR_visit_list(node.body, _push_scope(it.st), 1)
        e == IR_visit_list(node.orelse, y.st, 1)
    IN [node |-> [node EXCEPT !.target = t.node, !.iter = it.node,
                              !.body = y.nodes, !.orelse = e.nodes],
        st |-> _pop_scope(e.st)]

RECURSIVE IR_bind_items(_, _, _)
IR_bind_items(items, st, i) ==
    IF i > Len(items) THEN st
    ELSE IF items[i].optional_vars # NoneNode
    THEN IR_bind_items(items,
                       IR_bind_names(_target_names(items[i].optional_vars), st, 1),
                       i + 1)
    ELSE IR_bind_items(items, st, i + 1)

IR_visit_With(node, st) ==
    LET it == IR_visit_list(node.items, IR_bind_items(node.items, st, 1), 1)
        y == IR_visit_list(node.body, _push_scope(it.st), 1)
    IN [node |-> [node EXCEPT !.items = it.nodes, !.body = y.nodes],
        st |-> _pop_scope(y.st)]

IR_visit_ListComp(node, st) ==
    LET g == IR_visit_list(node.generators, _push_scope(st), 1)
        e == IR_visit(node.elt, g.st)
    IN [node |-> [node EXCEPT !.generators = g.nodes, !.elt = e.node],
        st |-> _pop_scope(e.st)]

IR_visit_comprehension(node, st) ==
    LET t == IR_visit(node.target, IR_bind_names(_target_names(node.target), st, 1))
        it == IR_visit(node.iter, t.st)
        fs == IR_visit_list(node.ifs, it.st, 1)
    IN [node |-> [node EXCEPT !.target = t.node, !.iter = it.node, !.ifs = fs.nodes],
        st |-> fs.st]

\* ast.NodeVisitor.visit on an ImportRenamer
IR_visit(node, st) ==
    CASE node.kind = "None" -> [node |-> node, st |-> st]
      [] node.kind = "Module" -> IR_visit_Module(node, st)
      [] node.kind \in {"FunctionDef", "AsyncFunctionDef"} ->
            IR_visit_FunctionDef(node, st)
      [] node.kind = "ClassDef" -> IR_visit_ClassDef(node, st)
      [] node.kind = "Assign" -> IR_visit_Assign(node, st)
      [] node.kind = "AnnAssign" -> IR_visit_AnnAssign(node, st)
      [] node.kind = "AugAssign" -> IR_visit_AugAssign(node, st)
      [] node.kind = "For" -> IR_visit_For(node, st)
      [] node.kind = "With" -> IR_visit_With(node, st)
      [] node.kind = "ListComp" -> IR_visit_ListComp(node, st)
      [] node.kind = "comprehension" -> IR_visit_comprehension(node, st)
      [] node.kind = "arg" -> [node |-> node, st |-> st]
      [] node.kind \in {"Global", "Nonlocal"} -> IR_visit_Global(node, st)
      [] node.kind = "Import" -> IR_visit_Import(node, st)
      [] node.kind = "ImportFrom" -> IR_visit_ImportFrom(node, st)
      [] node.kind = "Name" -> IR_visit_Name(node, st)
      [] OTHER -> IR_generic_visit(node, st, 1)

(***************************************************************************)
(* The selective policy: ImportRenamer(seed).visit(tree).                  *)
(***************************************************************************)
\* import i; def f(p): (for t in u: v); w   and   import i; def f(p): import j; u
ShadowScenarios ==
    {Module(<<ImportOf("foo"),
              Def("f", p, <<For(Store(t), Load(u), <<Expr(Load(v))>>), Expr(Load(w))>>),
              Expr(Load("foo"))>>) :
        p \in {"foo", "x"}, t \in {"foo", "x"}, u \in {"foo", "x"},
        v \in {"foo", "x"}, w \in {"foo", "x"}}
    \cup {Module(<<ImportOf(i), Def("f", p, <<ImportOf(j), Expr(Load(u))>>)>>) :
             i \in {"foo", "x"}, p \in {"foo", "x"}, j \in {"foo", "x"},
             u \in {"foo", "x"}}

SelSt ==
    [name_map |-> name_map, scopes |-> sel_scopes, random |-> sel_random,
     minted |-> minted, trace |-> << >>]

SelPre ==
    [name_map |-> name_map, scopes |-> sel_scopes, random |-> sel_random,
     minted |-> minted]

SelInit ==
    /\ name_map = << >>
    /\ sel_scopes = << >>
    /\ sel_random \in GeneratorStates
    /\ minted = << >>
    /\ pc = "new"
    /\ last = NoCall
    /\ scopes = << >>
    /\ rng = 0
    /\ engines = NoEngines
    /\ NoObjects

\* ImportRenamer.__init__(seed): a new instance with its own random.Random(seed)
ImportRenamer_init ==
    /\ pc = "new"
    /\ \/ sel_random' \in GeneratorStates
       \/ \E seed \in Seeds : sel_random' = random_seed(seed)
    /\ name_map' = << >>
    /\ sel_scopes' = << >>
    /\ minted' = << >>
    /\ pc' = "new"
    /\ last' = NoCall
    /\ UNCHANGED <<scopes, rng, engines, objects>>

SelVisitTree(tree) ==
    /\ pc = "new"
    /\ LET r == IR_visit(tree, SelSt)
       IN /\ name_map' = r.st.name_map
          /\ sel_scopes' = r.st.scopes
          /\ sel_random' = r.st.random
          /\ minted' = r.st.minted
          /\ last' = [op |-> "visit", arg |-> tree, ret |-> r.node, pre |-> SelPre,
                      trace |-> r.st.trace]
    /\ pc' = "done"
    /\ UNCHANGED <<scopes, rng, engines, objects>>

SelVisitModule == \E tree \in Modules : SelVisitTree(tree)

SelVisitImportScenario == \E tree \in ImportScenarios : SelVisitTree(tree)

SelVisitShadowScenario == \E tree \in ShadowScenarios : SelVisitTree(tree)

\* import i; lambda p: u
LambdaScenarios ==
    {Module(<<ImportOf(i), Expr(Lambda(Args1(p), Load(u)))>>) :
        i \in {"foo", "x"}, p \in {"foo", "x"}, u \in {"foo", "x"}}

SelVisitLambdaScenario == \E tree \in LambdaScenarios : SelVisitTree(tree)

\* import i; <a definition f with the load d in its signature>: as a
\* default, as the annotation of a parameter, as the return annotation, and
\* as the decorator of a class
SignatureScenarios ==
    {Module(<<ImportOf(i), s>>) :
        i \in {"foo", "x"},
        s \in UNION {{FunctionDef("f", arguments(<< >>, <<arg("y")>>, << >>, NoneNode,
                                                 NoneNode, <<Load(d)>>),
                                  << >>, <<Expr(Constant)>>),
                      FunctionDef("f", arguments(<< >>,
                                                 <<[arg("y") EXCEPT !.annotation = Load(d)]>>,
                                                 << >>, NoneNode, NoneNode, << >>),
                                  << >>, <<Expr(Constant)>>),
                      [Def("f", "y", <<Expr(Constant)>>) EXCEPT !.returns = Load(d)],
                      [ClassDef("f", << >>, <<Expr(Constant)>>)
                          EXCEPT !.decorator_list = <<Load(d)>>]} :
                     d \in {"foo", "x"}}}

SelVisitSignatureScenario == \E tree \in SignatureScenarios : SelVisitTree(tree)

\* import n; for t in i: u; v   and   import n; <u for t in i>; v
IterableScenarios ==
    {Module(<<ImportOf(n), s, Expr(Load(v))>>) :
        n \in {"foo", "x"},
        s \in UNION {{For(Store(t), Load(i), <<Expr(Load(u))>>)}
                     \cup {Expr(Comp(k, u, <<Clause(t, i, << >>)>>)) : k \in CompKinds} :
                     t \in {"foo", "x"}, i \in {"foo", "x"}, u \in {"foo", "x"}},
        v \in {"foo", "x"}}

SelVisitIterableScenario == \E tree \in IterableScenarios : SelVisitTree(tree)

\* import i; import j; v   and   import i; def f(y): import j; u; v
ReimportScenarios ==
    {Module(<<ImportOf(i), s, Expr(Load(v))>>) :
        i \in {"foo", "x"},
        s \in {ImportOf(j) : j \in {"foo", "x"}}
              \cup {Def("f", "y", <<ImportOf(j), Expr(Load(u))>>) :
                       j \in {"foo", "x"}, u \in {"foo", "x"}},
        v \in {"foo", "x"}}

SelVisitReimportScenario == \E tree \in ReimportScenarios : SelVisitTree(tree)

\* import n; lambda b: u; v   and   import n; <u for b in y>; v   for a
\* generator expression, a set comprehension and a dict comprehension
BinderScenarios ==
    {Module(<<ImportOf(n), Expr(e), Expr(Load(v))>>) :
        n \in {"foo", "x"},
        e \in UNION {{Lambda(Args1(b), Load(u))}
                     \cup {Comp(k, u, <<Clause(b, "y", << >>)>>) :
                              k \in {"GeneratorExp", "SetComp", "DictComp"}} :
                     b \in {"foo", "x"}, u \in {"foo", "x"}},
        v \in {"foo", "x"}}

SelVisitBinderScenario == \E tree \in BinderScenarios : SelVisitTree(tree)

SelNext ==
    \/ ImportRenamer_init
    \/ SelVisitModule
    \/ SelVisitImportScenario
    \/ SelVisitShadowScenario
    \/ SelVisitLambdaScenario
    \/ SelVisitSignatureScenario
    \/ SelVisitIterableScenario
    \/ SelVisitReimportScenario
    \/ SelVisitBinderScenario

SpecSel == SelInit /\ [][SelNext]_vars

(***************************************************************************)
(* Claims about the selective policy and the alias generators.             *)
(***************************************************************************)
BoundAnywhere(stack, n) == \E i \in 1 .. Len(stack) : n \in stack[i]

\* C5: a load of n is left as it is while any frame on the scope stack holds
\* n, whatever the Redirect Table says; it becomes the Redirect Table's alias
\* of n exactly when the table has n and no live frame holds n.  For
\* import foo; def f(foo): foo  the parameter and the use stay foo while the
\* table maps foo to the alias written into the import.
C5_SelectiveNonInterference ==
    last.op = "visit" =>
        /\ \A k \in 1 .. Len(Trace) :
              IsLoad(Trace[k]) =>
                 Trace[k].new =
                    IF BoundAnywhere(Trace[k].scopes, Trace[k].id) THEN Trace[k].id
                    ELSE IF Trace[k].id \in DOMAIN Trace[k].name_map
                    THEN Trace[k].name_map[Trace[k].id]
                    ELSE Trace[k].id
        /\ (/\ last.arg \in ImportScenarios
            /\ last.arg.body[2].args.args[1].arg = last.arg.body[1].names[1].name[1])
           => LET n == last.arg.body[1].names[1].name[1]
              IN /\ last.ret.body[2].args.args[1].arg = n
                 /\ last.arg.body[2].body[1].value.id = n
                       => last.ret.body[2].body[1].value.id = n
                 /\ n \in DOMAIN name_map
                 /\ name_map[n] = last.ret.body[1].names[1].asname
                 /\ name_map[n] # n

\* import foo; def f(foo): (for x in ..: foo); ..; foo : the load in the loop
\* body is left alone though the innermost frame does not hold foo, and the
\* load after the function becomes the alias
C5_Witness ==
    /\ last.op = "visit"
    /\ last.arg \in ShadowScenarios
    /\ \E k, m \in 1 .. Len(Trace) :
          /\ k < m
          /\ IsLoad(Trace[k]) /\ IsLoad(Trace[m])
          /\ Trace[k].id = "foo" /\ Trace[m].id = "foo"
          /\ "foo" \in DOMAIN Trace[k].name_map
          /\ Len(Trace[k].scopes) = 3
          /\ "foo" \in Trace[k].scopes[2]
          /\ "foo" \notin Trace[k].scopes[3]
          /\ Trace[k].new = "foo"
          /\ Trace[m].new = name_map["foo"]
          /\ Trace[m].new # "foo"

(***************************************************************************)
(* Several instances in one process.  Each instance has its own scopes     *)
(* (and, for ImportRenamer, its own name_map and random.Random); the       *)
(* generator of module random, rng, is the one of the process.  A          *)
(* traversal of a Module is taken one top-level statement at a time, and   *)
(* the steps of the instances interleave.                                  *)
(***************************************************************************)
EngineIds == {1, 2}

\* import n; s
PairTrees ==
    {Module(<<ImportOf(n), s>>) :
        n \in {"foo", "x"}, s \in {Expr(Load("foo")), Incr("x", "foo")}}

NoEngine ==
    [policy |-> None, seed |-> 0, tree |-> NoneNode, phase |-> "none", pos |-> 0,
     scopes |-> << >>, name_map |-> << >>, random |-> 0, minted |-> << >>,
     out |-> << >>]

\* Renamer.__init__ with a seed: random.seed(seed) on the generator g of the
\* process
seed_process_random(seed, g) == random_seed(seed)

PairInit ==
    /\ engines = [i \in EngineIds |-> NoEngine]
    /\ NoObjects
    /\ rng \in GeneratorStates
    /\ scopes = << >>
    /\ minted = << >>
    /\ pc = "new"
    /\ last = NoCall
    /\ name_map = << >>
    /\ sel_scopes = << >>
    /\ sel_random = 0

PairUnused ==
    UNCHANGED <<scopes, minted, name_map, sel_scopes, sel_random, pc, last, objects>>

\* Renamer(seed)
NewRenamer(i) ==
    /\ engines[i].phase = "none"
    /\ \E seed \in Seeds, tree \in PairTrees :
          /\ engines' = [engines EXCEPT ![i] =
                            [NoEngine EXCEPT !.policy = "full", !.seed = seed,
                                             !.tree = tree, !.phase = "new"]]
          /\ rng' = seed_process_random(seed, rng)
    /\ PairUnused

\* ImportRenamer(seed)
NewImportRenamer(i) ==
    /\ engines[i].phase = "none"
    /\ \E seed \in Seeds, tree \in PairTrees :
          engines' = [engines EXCEPT ![i] =
                         [NoEngine EXCEPT !.policy = "selective", !.seed = seed,
                                          !.tree = tree, !.phase = "new",
                                          !.random = random_seed(seed)]]
    /\ rng' = rng
    /\ PairUnused

\* the traversal state an instance works on
RenamerSt(e) == [scopes |-> e.scopes, rng |-> rng, minted |-> e.minted, trace |-> << >>]

ImportRenamerSt(e) ==
    [name_map |-> e.name_map, scopes |-> e.scopes, random |-> e.random,
     minted |-> e.minted, trace |-> << >>]

\* the instance after a step that left the traversal state st
Absorb(e, st) ==
    IF e.policy = "full"
    THEN [e EXCEPT !.scopes = st.scopes, !.minted = st.minted]
    ELSE [e EXCEPT !.scopes = st.scopes, !.minted = st.minted,
                   !.name_map = st.name_map, !.random = st.random]

\* visit_Module, its beginning: the push of the module frame
EnterModule(i) ==
    /\ engines[i].phase = "new"
    /\ engines' = [engines EXCEPT ![i] =
                      [Absorb(engines[i],
                              IF engines[i].policy = "full"
                              THEN push_scope(RenamerSt(engines[i]))
                              ELSE _push_scope(ImportRenamerSt(engines[i])))
                         EXCEPT !.phase = "in", !.pos = 1]]
    /\ rng' = rng
    /\ PairUnused

\* generic_visit of the Module: the visit of the next statement of its body
VisitStmt(i) ==
    /\ engines[i].phase = "in"
    /\ engines[i].pos <= Len(engines[i].tree.body)
    /\ LET e == engines[i]
           r == IF e.policy = "full" THEN visit(e.tree.body[e.pos], RenamerSt(e))
                ELSE IR_visit(e.tree.body[e.pos], ImportRenamerSt(e))
       IN /\ engines' = [engines EXCEPT ![i] =
                            [Absorb(e, r.st) EXCEPT !.pos = @ + 1,
                                                    !.out = Append(@, r.node)]]
          /\ rng' = IF e.policy = "full" THEN r.st.rng ELSE rng
    /\ PairUnused

\* visit_Module, its end: Renamer pops the module frame, ImportRenamer does not
LeaveModule(i) ==
    /\ engines[i].phase = "in"
    /\ engines[i].pos > Len(engines[i].tree.body)
    /\ engines' = [engines EXCEPT ![i] =
                      [(IF engines[i].policy = "full"
                        THEN Absorb(engines[i], pop_scope(RenamerSt(engines[i])))
                        ELSE engines[i])
                         EXCEPT !.phase = "done"]]
    /\ rng' = rng
    /\ PairUnused

PairNext ==
    \E i \in EngineIds :
        \/ NewRenamer(i)
        \/ NewImportRenamer(i)
        \/ EnterModule(i)
        \/ VisitStmt(i)
        \/ LeaveModule(i)

SpecPair == PairInit /\ [][PairNext]_vars

(***************************************************************************)
(* Claims about several instances.                                         *)
(***************************************************************************)
\* the tree an instance has returned
Rewritten(e) == [e.tree EXCEPT !.body = e.out]

\* the traversal of tree by an instance of the policy made with the seed, with
\* no other instance in the process
RunAlone(policy, seed, tree) ==
    IF policy = "full"
    THEN visit(tree, [scopes |-> << >>, rng |-> random_seed(seed), minted |-> << >>,
                      trace |-> << >>])
    ELSE IR_visit(tree, [name_map |-> << >>, scopes |-> << >>,
                         random |-> random_seed(seed), minted |-> << >>,
                         trace |-> << >>])

\* C11: two runs on the same tree with the same policy and the same seed
\* mint the same sequence of aliases and return identical trees.
C11_Determinism ==
    \A i, j \in EngineIds :
        (/\ engines # NoEngines
         /\ engines[i].phase = "done" /\ engines[j].phase = "done"
         /\ engines[i].policy = engines[j].policy
         /\ engines[i].seed = engines[j].seed
         /\ engines[i].tree = engines[j].tree)
        => /\ engines[i].minted = engines[j].minted
           /\ Rewritten(engines[i]) = Rewritten(engines[j])

\* C12: whatever the interleaving of the steps of two instances, each made
\* with its own seed, the tree an instance returns is the tree it returns when
\* it runs alone.
C12_IsolatedInstances ==
    \A i \in EngineIds :
        (engines # NoEngines /\ engines[i].phase = "done")
        => Rewritten(engines[i])
              = RunAlone(engines[i].policy, engines[i].seed, engines[i].tree).node

(***************************************************************************)
(* Either policy on the same inputs: one Renamer and one ImportRenamer,    *)
(* each made with a seed, and one traversal by one of them.                *)
(***************************************************************************)
BothInit ==
    /\ scopes = << >>
    /\ minted = << >>
    /\ name_map = << >>
    /\ sel_scopes = << >>
    /\ \E seed \in Seeds : rng = random_seed(seed)
    /\ \E seed \in Seeds : sel_random = random_seed(seed)
    /\ pc = "new"
    /\ last = NoCall
    /\ engines = NoEngines
    /\ NoObjects

\* x, *n  as a target
StarTarget(n) == Tuple(<<Store("x"), Starred(Store(n), "Store")>>, "Store")

\* p; <a statement with the target x, *n>; n
StarredScenarios ==
    {Module(<<p, s, Expr(Load(n))>>) :
        p \in {ImportOf("foo"), Incr("y", "x")},
        s \in UNION {{Assign(<<StarTarget(m)>>, Load("x")),
                      For(StarTarget(m), Load("x"), <<Expr(Load(m))>>),
                      With(<<withitem(Load("x"), StarTarget(m))>>, <<Expr(Load(m))>>)} :
                     m \in {"foo", "y"}},
        n \in {"foo", "y"}}

VisitStarredScenario == \E tree \in StarredScenarios : VisitTree(tree)

SelVisitStarredScenario == \E tree \in StarredScenarios : SelVisitTree(tree)

\* import m as a; n   and   from .. import m as a; n
ExplicitAliasScenarios ==
    {Module(<<[kind |-> k, names |-> <<alias(<<m>>, a)>>], Expr(Load(n))>>) :
        k \in {"Import", "ImportFrom"}, m \in {"foo", "x"}, a \in {"x", "y"},
        n \in Names}

SelVisitExplicitAliasScenario ==
    \E tree \in ExplicitAliasScenarios : SelVisitTree(tree)

\* p; u; <a statement that binds t>; v
LateBindingScenarios ==
    {Module(<<p, Expr(Load(u)), b, Expr(Load(v))>>) :
        p \in {Expr(Load("y")), Incr("x", "y"), ImportOf("x"), ImportOf("foo")},
        u \in {"x", "foo"},
        b \in UNION {{Incr(t, "y"), ImportOf(t), Def(t, "y", <<Expr(Constant)>>),
                      For(Store(t), Load("y"), <<Expr(Constant)>>)} :
                     t \in {"x", "foo"}},
        v \in {"x", "foo"}}

VisitLateBindingScenario == \E tree \in LateBindingScenarios : VisitTree(tree)

SelVisitLateBindingScenario ==
    \E tree \in LateBindingScenarios : SelVisitTree(tree)

BothNext ==
    \/ Renamer_init
    \/ VisitModule
    \/ VisitImportScenario
    \/ VisitCompScenario
    \/ VisitStarredScenario
    \/ VisitForScenario
    \/ VisitLateBindingScenario
    \/ SelVisitModule
    \/ SelVisitImportScenario
    \/ SelVisitShadowScenario
    \/ SelVisitStarredScenario
    \/ SelVisitExplicitAliasScenario
    \/ SelVisitLateBindingScenario

SpecBoth == BothInit /\ [][BothNext]_vars

(***************************************************************************)
(* Claims about both policies.                                             *)
(***************************************************************************)
\* the child nodes of every kind of node: <<field, is a list>>
NodeFields(kind) ==
    CASE kind = "Name" -> << >>
      [] kind \in {"Constant", "None", "alias", "Global", "Nonlocal"} -> << >>
      [] kind \in {"Import", "ImportFrom"} -> << <<"names", TRUE>> >>
      [] kind = "Assign" -> << <<"targets", TRUE>>, <<"value", FALSE>> >>
      [] kind = "AugAssign" -> << <<"target", FALSE>>, <<"value", FALSE>> >>
      [] kind = "AnnAssign" ->
            << <<"target", FALSE>>, <<"annotation", FALSE>>, <<"value", FALSE>> >>
      [] kind = "For" ->
            << <<"target", FALSE>>, <<"iter", FALSE>>, <<"body", TRUE>>,
               <<"orelse", TRUE>> >>
      [] kind = "With" -> << <<"items", TRUE>>, <<"body", TRUE>> >>
      [] kind = "FunctionDef" ->
            << <<"args", FALSE>>, <<"body", TRUE>>, <<"decorator_list", TRUE>>,
               <<"returns", FALSE>> >>
      [] kind = "ClassDef" ->
            << <<"bases", TRUE>>, <<"keywords", TRUE>>, <<"body", TRUE>>,
               <<"decorator_list", TRUE>> >>
      [] kind = "ListComp" -> << <<"elt", FALSE>>, <<"generators", TRUE>> >>
      [] kind = "comprehension" ->
            << <<"target", FALSE>>, <<"iter", FALSE>>, <<"ifs", TRUE>> >>
      [] OTHER -> ChildFields(kind)

\* the number of identifiers a node holds outside its child nodes
Identifiers(node) ==
    CASE node.kind \in {"Name", "arg", "FunctionDef", "ClassDef"} -> 1
      [] node.kind \in {"Global", "Nonlocal"} -> Len(node.names)
      [] node.kind = "alias" -> Len(node.name)
      [] OTHER -> 0

\* a tree without its identifiers: the kind of every node, its context, and
\* its children in their order
RECURSIVE Shape(_)
Shape(node) ==
    [kind |-> node.kind,
     ctx |-> IF "ctx" \in DOMAIN node THEN node.ctx ELSE None,
     identifiers |-> Identifiers(node),
     children |->
        [i \in 1 .. Len(NodeFields(node.kind)) |->
            LET f == NodeFields(node.kind)[i]
            IN IF f[2] THEN [j \in 1 .. Len(node[f[1]]) |-> Shape(node[f[1]][j])]
               ELSE Shape(node[f[1]])]]

SelectiveCall == "name_map" \in DOMAIN last.pre

\* C13: under either policy the returned tree has, at every position, a node
\* of the kind the input has there, with as many children; the two trees
\* differ in identifiers only.
C13_RoundTripStructure ==
    last.op = "visit" => Shape(last.ret) = Shape(last.arg)

\* a selective traversal of import foo; def f(x): foo; foo : the import gets
\* an asname and the two loads get the alias, and nothing else differs
C13_Witness ==
    /\ last.op = "visit"
    /\ last.arg \in ImportScenarios
    /\ last.ret # last.arg
    /\ last.ret.body[3].value.id # last.arg.body[3].value.id
    /\ last.ret.body[2].body[1].value.id # last.arg.body[2].body[1].value.id
    /\ Shape(last.ret) = Shape(last.arg)
    /\ SelectiveCall

\* C14: a traversal does not return with a name of an assignment, loop or
\* with target left unbound: when the traversal comes to a name of a target,
\* the innermost frame holds that name.  (A target element that cannot be
\* decomposed is to end the traversal with MalformedTarget instead.)
C14_MalformedTargetReported ==
    last.op = "visit" =>
        \A k \in 1 .. Len(Trace) :
            (Trace[k].ev = "name" /\ Trace[k].ctx = "Store")
            => /\ Trace[k].scopes # << >>
               /\ IF SelectiveCall
                  THEN Trace[k].id \in Trace[k].scopes[Len(Trace[k].scopes)]
                  ELSE Trace[k].id \in DOMAIN Trace[k].scopes[Len(Trace[k].scopes)]

\* the same, for the traversals of trees without a starred target
TargetsBoundWithoutStarred ==
    (last.op = "visit" /\ last.arg \notin StarredScenarios)
    => C14_MalformedTargetReported

\* a nesting depth a host would configure
NestingLimit == 2

\* C15: the depth of the scope stack never exceeds the configured bound: no
\* push of a traversal that returns a tree leaves the stack deeper than the
\* bound.
C15_NestingLimitEnforced ==
    last.op = "visit" =>
        \A k \in 1 .. Len(Trace) :
            Trace[k].ev = "push" => Len(Trace[k].scopes) <= NestingLimit

\* the child nodes of a node
Children(node) ==
    UNION {IF NodeFields(node.kind)[i][2] THEN Range(node[NodeFields(node.kind)[i][1]])
           ELSE {node[NodeFields(node.kind)[i][1]]} :
              i \in 1 .. Len(NodeFields(node.kind))}

\* the alias nodes of the imports of a tree
RECURSIVE AliasesIn(_)
AliasesIn(node) ==
    IF node.kind = "alias" THEN {node}
    ELSE UNION {AliasesIn(c) : c \in Children(node)}

\* C16: under the selective policy a load is rewritten only when an import
\* without an explicit alias binds its name, and a name that is not a load is
\* left as it is; an import with an explicit alias causes no rewriting.
C16_OnlyAutoAliasesPropagate ==
    (last.op = "visit" /\ SelectiveCall) =>
        \A k \in 1 .. Len(Trace) :
            (Trace[k].ev = "name" /\ Trace[k].new # Trace[k].id)
            => /\ Trace[k].ctx = "Load"
               /\ \E a \in AliasesIn(last.arg) :
                     a.asname = None /\ a.name[1] = Trace[k].id

\* a tree without the identifiers that are not binding sites: the ids of
\* loads, the asnames of imports and the names of global declarations
RECURSIVE BindingSites(_)
BindingSites(node) ==
    [f \in DOMAIN node |->
        IF \E i \in 1 .. Len(NodeFields(node.kind)) : NodeFields(node.kind)[i] = <<f, TRUE>>
        THEN [j \in 1 .. Len(node[f]) |-> BindingSites(node[f][j])]
        ELSE IF \E i \in 1 .. Len(NodeFields(node.kind)) :
                   NodeFields(node.kind)[i] = <<f, FALSE>>
        THEN BindingSites(node[f])
        ELSE IF \/ node.kind = "Name" /\ node.ctx = "Load" /\ f = "id"
                \/ node.kind = "alias" /\ f = "asname"
                \/ node.kind \in {"Global", "Nonlocal"} /\ f = "names"
        THEN None
        ELSE node[f]]

\* the trees  import i; def f(p): u; v  and  import i; lambda p: u , their
\* parameter p, and the visit of the load u in the body
HasParameter(tree) == tree \in ImportScenarios \cup LambdaScenarios

ParameterOf(tree) ==
    IF tree \in ImportScenarios THEN tree.body[2].args.args[1].arg
    ELSE tree.body[2].value.args.args[1].arg

BodyVisit == Trace[CHOOSE k \in 1 .. Len(Trace) :
                      /\ Trace[k].ev = "name"
                      /\ \A j \in 1 .. (k - 1) : Trace[j].ev # "name"]

\* C17: under the selective policy the names that assignments, parameters,
\* loop, with and comprehension targets and definitions introduce are in the
\* innermost frame when the traversal goes on from their binding site, and
\* the identifier at a binding site is not changed.
C17_BindingSitesTracked ==
    (last.op = "visit" /\ SelectiveCall) =>
        /\ BindingSites(last.ret) = BindingSites(last.arg)
        /\ \A k \in 1 .. Len(Trace) :
              (Trace[k].ev = "name" /\ Trace[k].ctx = "Store")
              => Trace[k].id \in Trace[k].scopes[Len(Trace[k].scopes)]
        /\ \A k \in 1 .. Len(Trace) :
              Trace[k].ev = "bind"
              => Trace[k].id \in Trace[k].scopes[Len(Trace[k].scopes)]
        /\ HasParameter(last.arg)
           => ParameterOf(last.arg) \in BodyVisit.scopes[Len(BodyVisit.scopes)]

\* the same, for the traversals of trees without a lambda
BindingSitesTrackedWithoutLambda ==
    (last.op = "visit" /\ last.arg \notin LambdaScenarios)
    => C17_BindingSitesTracked

\* the identifiers of the loads of a tree
RECURSIVE LoadIds(_)
LoadIds(node) ==
    IF node.kind = "Name" THEN (IF node.ctx = "Load" THEN {node.id} ELSE {})
    ELSE UNION {LoadIds(c) : c \in Children(node)}

\* C18: under the selective policy a load of the name of an import that got
\* an alias, not shadowed where it stands, becomes the alias wherever it
\* stands: also as a default, as an annotation of a parameter or of the
\* result, and as the decorator of a class.
C18_EveryLoadRewritten ==
    (last.op = "visit" /\ SelectiveCall) =>
        /\ \A k \in 1 .. Len(Trace) :
              (/\ IsLoad(Trace[k])
               /\ Trace[k].id \in DOMAIN Trace[k].name_map
               /\ ~ BoundAnywhere(Trace[k].scopes, Trace[k].id))
              => Trace[k].new = Trace[k].name_map[Trace[k].id]
        /\ (/\ last.arg \in SignatureScenarios
            /\ LoadIds(last.arg.body[2]) = {last.arg.body[1].names[1].name[1]})
           => LoadIds(last.ret.body[2]) = {last.ret.body[1].names[1].asname}

\* the scope stack of the instance that made the last call
FinalScopes == IF SelectiveCall THEN sel_scopes ELSE scopes

\* C19: under either policy the traversal of a module begins with the push of
\* the outermost frame, which stays at the bottom until the end; every push
\* is followed by the pop that takes its frame off, above which the stack
\* never falls in between; and the stack is empty when the traversal returns.
C19_FrameLifecycle ==
    last.op = "visit" =>
        /\ Len(Trace) >= 2
        /\ Trace[1].ev = "push" /\ Len(Trace[1].scopes) = 1
        /\ \A k \in 1 .. (Len(Trace) - 1) : Len(Trace[k].scopes) >= 1
        /\ \A j \in 1 .. Len(Trace) :
              Trace[j].ev = "push"
              => \E k \in (j + 1) .. Len(Trace) :
                    /\ Trace[k].ev = "pop"
                    /\ Len(Trace[k].scopes) = Len(Trace[j].scopes) - 1
                    /\ \A m \in j .. (k - 1) :
                          Len(Trace[m].scopes) >= Len(Trace[j].scopes)
        /\ FinalScopes = << >>

\* in a traversal of  p; for t in i: u; v : the bind_name call for the loop
\* target, which is the last one made with the module frame innermost
ForBind ==
    Highest({k \in 1 .. Len(Trace) :
                Trace[k].ev = "bind" /\ Len(Trace[k].scopes) = 1})

\* C20: under the full policy the iterable of a for loop is visited before
\* the target is bound: its load resolves against the stack as it was before
\* the loop, and stays as it is when the loop target is the first binding of
\* its name; the target is then bound in the frame that encloses the loop and
\* renamed, and the loads of it in the body and after the loop carry that
\* alias.
C20_IterableBeforeTarget ==
    (last.op = "visit" /\ ~ SelectiveCall /\ last.arg \in ForScenarios) =>
        LET loop == last.arg.body[2]
            out == last.ret.body[2]
            t == loop.target.id
            iterable == Trace[ForBind - 1]
            bound == Trace[ForBind]
        IN /\ ForBind > 1
           /\ IsLoad(iterable) /\ iterable.id = loop.iter.id
           /\ iterable.new = Resolve(iterable.scopes, loop.iter.id)
           /\ out.iter.id = iterable.new
           /\ (loop.iter.id = t /\ Holders(iterable.scopes, t) = {})
              => out.iter.id = t
           /\ bound.id = t
           /\ Len(bound.scopes) = Len(iterable.scopes)
           /\ t \in DOMAIN bound.scopes[1] /\ bound.scopes[1][t] = bound.new
           /\ out.target.id = bound.new /\ bound.new # t
           /\ loop.body[1].value.id = t => out.body[1].value.id = bound.new
           /\ last.arg.body[3].value.id = t => last.ret.body[3].value.id = bound.new

\* y; for x in x: x; x : the iterable stays x, the target, the load in the body
\* and the load after the loop carry the alias minted for the target
C20_Witness ==
    /\ last.op = "visit" /\ ~ SelectiveCall
    /\ last.arg = Module(<<Expr(Load("y")), For(Store("x"), Load("x"), <<Expr(Load("x"))>>),
                           Expr(Load("x"))>>)
    /\ last.ret.body[2].iter.id = "x"
    /\ last.ret.body[2].target.id # "x"
    /\ last.ret.body[2].target.id \in Range(minted)
    /\ last.ret.body[2].body[1].value.id = last.ret.body[2].target.id
    /\ last.ret.body[3].value.id = last.ret.body[2].target.id

\* in  import n; for t in i: u; v  and  import n; <u for t in i>; v : the
\* loop or the clause, and the alias the import got
ClauseOf(tree) ==
    IF tree.body[2].kind = "For" THEN tree.body[2]
    ELSE tree.body[2].value.generators[1]

ImportAlias == last.ret.body[1].names[1].asname

\* C21: under the selective policy the iterable of a for loop or of a
\* comprehension clause is visited before the target of the clause is bound: a
\* load of an import's name in the iterable, with nothing shadowing it, becomes
\* the alias also when the target has that name.
C21_SelectiveIterableFirst ==
    (/\ last.op = "visit" /\ SelectiveCall
     /\ last.arg \in IterableScenarios
     /\ ClauseOf(last.arg).iter.id = last.arg.body[1].names[1].name[1])
    => ClauseOf(last.ret).iter.id = ImportAlias

\* the definition of a module  p; <a definition>; v
TheDefinition(tree) ==
    IF tree.body[2].kind = "Expr" THEN tree.body[2].value ELSE tree.body[2]

OptionalName(a) == IF a = NoneNode THEN << >> ELSE <<a.arg>>

\* the parameter names of a definition, in the order the code binds them
ParameterNames(d) ==
    IF d.kind = "ClassDef" THEN << >>
    ELSE [i \in 1 .. Len(d.args.posonlyargs \o d.args.args \o d.args.kwonlyargs) |->
             (d.args.posonlyargs \o d.args.args \o d.args.kwonlyargs)[i].arg]
         \o OptionalName(d.args.vararg) \o OptionalName(d.args.kwarg)

\* the calls of the trace that push the frame of the definition, and pop it
DefinitionPushes ==
    {k \in 1 .. Len(Trace) : Trace[k].ev = "push" /\ Len(Trace[k].scopes) = 2}
DefinitionPops ==
    {k \in 1 .. Len(Trace) : Trace[k].ev = "pop" /\ Len(Trace[k].scopes) = 1}

\* C22: a def or a class binds its own name in the enclosing frame and then
\* pushes exactly one frame (a lambda pushes one without binding a name);
\* every parameter, of every kind, is bound and renamed in the new frame
\* before anything of the body is visited; the bases and keywords of a class
\* are visited with the new frame still empty, so they resolve against the
\* enclosing frames; the frame is popped when the definition ends.
C22_DefinitionScopes ==
    (last.op = "visit" /\ last.arg \in DefinitionScenarios) =>
        LET d == TheDefinition(last.arg)
            r == TheDefinition(last.ret)
            ps == ParameterNames(d)
            k == Highest(DefinitionPushes)
            q == Highest(DefinitionPops)
        IN /\ Cardinality(DefinitionPushes) = 1
           /\ Cardinality(DefinitionPops) = 1
           /\ \A j \in 1 .. Len(Trace) : Len(Trace[j].scopes) <= 2
           /\ Trace[k].scopes[2] = EmptyFrame
           /\ d.kind # "Lambda" =>
                 /\ Trace[k - 1].ev = "bind" /\ Trace[k - 1].id = d.name
                 /\ Len(Trace[k - 1].scopes) = 1
                 /\ Trace[k - 1].scopes[1][d.name] = r.name
                 /\ Trace[k].scopes[1] = Trace[k - 1].scopes[1]
           /\ \A j \in 1 .. Len(ps) :
                 /\ Trace[k + j].ev = "bind" /\ Trace[k + j].id = ps[j]
                 /\ Len(Trace[k + j].scopes) = 2
                 /\ Trace[k + j].scopes[1] = Trace[k].scopes[1]
                 /\ Trace[q - 1].scopes[2][ps[j]] = ParameterNames(r)[j]
           /\ \A j \in (k + Len(ps) + 1) .. (q - 1) :
                 Trace[j].ev = "bind" => Trace[j].id \notin Range(ps)
           /\ d.kind = "ClassDef" =>
                 /\ IsLoad(Trace[k + 1]) /\ Trace[k + 1].id = d.bases[1].id
                 /\ IsLoad(Trace[k + 2])
                 /\ Trace[k + 2].id = d.keywords[1].value.id
                 /\ Trace[k + 2].scopes[2] = EmptyFrame
                 /\ r.bases[1].id = Resolve(<<Trace[k].scopes[1]>>, d.bases[1].id)
                 /\ r.keywords[1].value.id =
                        Resolve(<<Trace[k].scopes[1]>>, d.keywords[1].value.id)
           /\ q > k /\ Trace[q + 1].ev = "name"
           /\ Trace[q + 1].id = last.arg.body[3].value.id
           /\ Trace[q].scopes = <<Trace[k].scopes[1]>>

\* a def with the five kinds of parameter whose body loads **k, followed by
\* a load of the def's name
C22_Witness ==
    /\ last.op = "visit"
    /\ last.arg \in DefinitionScenarios
    /\ TheDefinition(last.arg).kind = "FunctionDef"
    /\ Len(ParameterNames(TheDefinition(last.arg))) = 5
    /\ last.ret.body[2].body[1].value.id = last.ret.body[2].args.kwarg.arg
    /\ last.ret.body[2].args.kwarg.arg # "k"
    /\ last.ret.body[3].value.id = last.ret.body[2].name
    /\ last.ret.body[2].name # "f"

\* the loads in the decorators and the defaults of a definition, each with
\* what the traversal made of it
SignatureRewrites(d, r) ==
    (IF d.kind = "Lambda" THEN {}
     ELSE {<<d.decorator_list[i].id, r.decorator_list[i].id>> :
              i \in DOMAIN d.decorator_list})
    \cup (IF d.kind = "ClassDef" THEN {}
          ELSE {<<d.args.defaults[i].id, r.args.defaults[i].id>> :
                   i \in DOMAIN d.args.defaults})

\* C23: the loads in the decorators and in the parameter defaults of a def,
\* a lambda or a class are rewritten against the frames live before the
\* definition's frame is pushed: each becomes the alias the enclosing
\* frames give its name, whatever the definition's parameters are called.
C23_SignatureInEnclosingScope ==
    (last.op = "visit" /\ last.arg \in DecoratedScenarios) =>
        \A w \in SignatureRewrites(TheDefinition(last.arg), TheDefinition(last.ret)) :
            w[2] = Resolve(<<Trace[Highest(DefinitionPushes)].scopes[1]>>, w[1])

\* the simple names a target reaches through nested tuples and lists
RECURSIVE StoreNames(_)
StoreNames(t) ==
    IF t.kind = "Name" THEN {t.id}
    ELSE IF t.kind \in {"Tuple", "List"}
    THEN UNION {StoreNames(t.elts[i]) : i \in DOMAIN t.elts}
    ELSE {}

\* r is the target t with every simple name replaced by the alias frame
\* gives it and every base and index resolved as a load against frame
RECURSIVE TargetRenamed(_, _, _)
TargetRenamed(t, r, frame) ==
    /\ r.kind = t.kind /\ r.ctx = t.ctx
    /\ CASE t.kind = "Name" -> t.id \in DOMAIN frame /\ r.id = frame[t.id]
         [] t.kind \in {"Tuple", "List"} ->
               /\ Len(r.elts) = Len(t.elts)
               /\ \A i \in DOMAIN t.elts : TargetRenamed(t.elts[i], r.elts[i], frame)
         [] t.kind = "Attribute" ->
               r.value = Load(Resolve(<<frame>>, t.value.id))
         [] t.kind = "Subscript" ->
               /\ r.value = Load(Resolve(<<frame>>, t.value.id))
               /\ r.slice = Load(Resolve(<<frame>>, t.slice.id))

\* the module frame as the statement after the assignment finds it
FrameAfterAssign == Trace[Len(Trace) - 1].scopes[1]

\* C24: an assignment binds exactly the simple names its target reaches
\* through nested tuples and lists, and renames each of them in place to its
\* alias; an attribute or subscript target binds nothing and the names of
\* its base and index are rewritten as loads.
C24_NestedTargets ==
    (last.op = "visit" /\ last.arg \in TargetScenarios) =>
        /\ DOMAIN FrameAfterAssign =
              StoreNames(last.arg.body[2].targets[1])
              \cup (IF last.arg.body[1].kind = "Assign" THEN {"x"} ELSE {})
        /\ {Trace[k].id : k \in {j \in 1 .. Len(Trace) : Trace[j].ev = "bind"}} =
              DOMAIN FrameAfterAssign
        /\ TargetRenamed(last.arg.body[2].targets[1],
                         last.ret.body[2].targets[1], FrameAfterAssign)

\* the target (a, [b, o.attr, o[i]]) after a statement that loads only: a
\* and b are two names, both renamed, and the base o is a, rewritten to the
\* alias of a
C24_Witness ==
    /\ last.op = "visit"
    /\ last.arg \in TargetScenarios
    /\ last.arg.body[1].kind = "Expr"
    /\ last.arg.body[2].targets[1].kind = "Tuple"
    /\ Len(last.arg.body[2].targets[1].elts) = 2
    /\ Cardinality(StoreNames(last.arg.body[2].targets[1])) = 2
    /\ last.ret.body[2].targets[1].elts[2].elts[1].id \notin {"x", "foo"}
    /\ last.arg.body[2].targets[1].elts[2].elts[3].value.id = "x"
    /\ last.ret.body[2].targets[1].elts[2].elts[3].value.id =
          last.ret.body[2].targets[1].elts[1].id
    /\ last.ret.body[2].targets[1].elts[1].id # "x"

\* C25: the name in the as-target of a with statement is bound in the frame
\* the statement is in and the target node is rewritten to that alias, so a
\* load of the name in the body carries the identifier of the target.
C25_WithTargetRenamed ==
    (last.op = "visit" /\ last.arg \in WithScenarios) =>
        LET t == last.arg.body[2].items[1].optional_vars.id
            w == last.ret.body[2]
        IN /\ t \in DOMAIN FrameAfterAssign
           /\ w.items[1].optional_vars.id = FrameAfterAssign[t]
           /\ last.arg.body[2].body[1].value.id = t =>
                 w.body[1].value.id = w.items[1].optional_vars.id

\* the name an import makes available: the explicit alias, or the first
\* dotted component of the imported name
UsedName(a) == IF a.asname # None THEN a.asname ELSE a.name[1]

\* the declaration of the s-th import of a module of ImportPairScenarios
Declared(tree, s) == tree.body[s].names[1]

\* C26: an import without an explicit alias binds the name it makes
\* available (the first dotted component, or the imported name of a
\* from-import) in the current frame and carries the minted alias as its
\* asname afterwards; a later load of that name is rewritten to the same
\* alias, and a second such import of the name in the frame reuses it.
C26_ImportAliasWritten ==
    (last.op = "visit" /\ last.arg \in ImportPairScenarios) =>
        /\ \A s \in {1, 2} :
              Declared(last.arg, s).asname = None =>
                LET n == Declared(last.arg, s).name[1]
                IN /\ \E k \in 1 .. Len(Trace) :
                         /\ Trace[k].ev = "bind" /\ Trace[k].id = n
                         /\ Len(Trace[k].scopes) = 1
                         /\ Trace[k].new = Declared(last.ret, s).asname
                   /\ Declared(last.ret, s).asname \in Range(minted)
                   /\ Declared(last.ret, s).name = Declared(last.arg, s).name
                   /\ last.arg.body[3].value.id = n =>
                         last.ret.body[3].value.id = Declared(last.ret, s).asname
        /\ (/\ Declared(last.arg, 1).asname = None
            /\ Declared(last.arg, 2).asname = None
            /\ Declared(last.arg, 1).name[1] = Declared(last.arg, 2).name[1]) =>
              /\ Declared(last.ret, 1).asname = Declared(last.ret, 2).asname
              /\ Len(minted) = Len(last.pre.minted) + 1

\* import foo.b; from .. import foo; foo: one alias is minted, both
\* declarations carry it and the load is rewritten to it
C26_Witness ==
    /\ last.op = "visit"
    /\ last.arg \in ImportPairScenarios
    /\ last.arg.body[1] = Import(<<alias(<<"foo", "b">>, None)>>)
    /\ last.arg.body[2] = ImportFrom(<<alias(<<"foo">>, None)>>)
    /\ last.arg.body[3].value.id = "foo"
    /\ Len(minted) = 1
    /\ Declared(last.ret, 1).asname = minted[1]
    /\ Declared(last.ret, 2).asname = minted[1]
    /\ last.ret.body[3].value.id = minted[1]
    /\ minted[1] # "foo"

\* C27: for an import with an explicit alias a, the identifier the
\* declaration carries after the traversal is the identifier that later
\* loads of a are rewritten to.
C27_ExplicitAliasConsistent ==
    (last.op = "visit" /\ last.arg \in ImportPairScenarios) =>
        \A s \in {1, 2} :
            (/\ Declared(last.arg, s).asname # None
             /\ last.arg.body[3].value.id = Declared(last.arg, s).asname) =>
                last.ret.body[3].value.id = Declared(last.ret, s).asname

\* the function that holds the declaration of a module of DeclarationScenarios
Declaring(tree) ==
    IF tree.body[1].kind = "Assign" THEN tree.body[2] ELSE tree.body[1].body[1]

\* the frames live around the declaring function: the stack at the push of
\* its frame, the innermost one of all, without that frame
EnclosingFrames ==
    LET s == Trace[Highest({k \in 1 .. Len(Trace) : Trace[k].ev = "push"})].scopes
    IN SubSeq(s, 1, Len(s) - 1)

\* C28: a name in a global or nonlocal declaration that the module frame or
\* an enclosing function frame binds is rewritten to the alias of that
\* binding, and the stores and loads of the name inside the declaring
\* function carry that alias, never one minted in the function's own frame;
\* a declared name that no enclosing frame binds is left as it is.
C28_DeclarationsFollowBinding ==
    (last.op = "visit" /\ last.arg \in DeclarationScenarios) =>
        LET f == Declaring(last.arg)
            r == Declaring(last.ret)
            g == f.body[1].names[1]
        IN /\ r.body[1].names[1] = Resolve(EnclosingFrames, g)
           /\ Holders(EnclosingFrames, g) # {} =>
                 /\ f.body[2].targets[1].id = g =>
                       r.body[2].targets[1].id = Resolve(EnclosingFrames, g)
                 /\ f.body[2].value.left.id = g =>
                       r.body[2].value.left.id = Resolve(EnclosingFrames, g)

\* C29: the entry of name_map for a name is the alias of the first import of
\* the name; no later import of the name, in whatever scope, replaces it,
\* so every load of the name that is rewritten becomes that alias.
C29_FirstImportWins ==
    (last.op = "visit" /\ SelectiveCall /\ last.arg \in ReimportScenarios) =>
        LET n == last.arg.body[1].names[1].name[1]
        IN /\ name_map[n] = ImportAlias
           /\ \A k \in 1 .. Len(Trace) :
                 (Trace[k].ev = "name" /\ Trace[k].id = n /\ Trace[k].new # n) =>
                    Trace[k].new = ImportAlias

\* the name a lambda or a comprehension binds: its parameter or its target
BinderOf(e) ==
    IF e.kind = "Lambda" THEN e.args.args[1].arg ELSE e.generators[1].target.id

\* the loads in the body of a lambda or in the element of a comprehension
BodyLoads(e) ==
    IF e.kind = "Lambda" THEN {e.body.id}
    ELSE IF e.kind = "DictComp" THEN {e.key.id, e.value.id}
    ELSE {e.elt.id}

\* C30: a lambda parameter, or the target of a generator expression, of a
\* set comprehension or of a dict comprehension, that has the name of an
\* import shadows the import inside the construct and nowhere else: the
\* loads of the name in the body or element stay as they are, and a load of
\* the name after the construct is rewritten to the alias of the import.
C30_ExpressionBindersShadow ==
    (/\ last.op = "visit" /\ SelectiveCall
     /\ last.arg \in BinderScenarios
     /\ BinderOf(last.arg.body[2].value) = last.arg.body[1].names[1].name[1]) =>
        /\ BodyLoads(last.ret.body[2].value) = BodyLoads(last.arg.body[2].value)
        /\ last.arg.body[3].value.id = last.arg.body[1].names[1].name[1] =>
              last.ret.body[3].value.id = ImportAlias

\* the target of the assignment in the body of the loop or with block of a
\* module of BlockScenarios
BlockTarget(tree) ==
    IF tree.body[2].body[1].kind = "Assign"
    THEN tree.body[2].body[1].targets[1].id
    ELSE tree.body[2].body[1].target.id

\* C31: a name keeps one alias across the boundary of a for loop or a with
\* block: an assignment or augmented assignment in the body to a name bound
\* before the statement carries the alias of that binding, and a load after
\* the statement of the name assigned in the body carries the alias that
\* assignment used.
C31_OneAliasAcrossBlocks ==
    (last.op = "visit" /\ last.arg \in BlockScenarios) =>
        /\ BlockTarget(last.arg) = "x" =>
              BlockTarget(last.ret) = last.ret.body[1].targets[1].id
        /\ last.arg.body[3].value.id = BlockTarget(last.arg) =>
              last.ret.body[3].value.id = BlockTarget(last.ret)

\* what the bindings recorded by the first statement p of a module of
\* LateBindingScenarios make of a load of u: the alias written into p when p
\* is an import of u, the alias of its target when p assigns u (the full
\* policy only: the selective policy renames imports alone), u otherwise
ResolvedByFirst(tree, out, u) ==
    IF tree.body[1].kind = "Import" /\ tree.body[1].names[1].name[1] = u
    THEN out.body[1].names[1].asname
    ELSE IF tree.body[1].kind = "Assign" /\ tree.body[1].targets[1].id = u
            /\ ~ SelectiveCall
    THEN out.body[1].targets[1].id
    ELSE u

\* what the bindings recorded when the k-th call of the trace, a load, is
\* made give for its name
ResolvedAt(k) ==
    IF SelectiveCall
    THEN IF /\ Trace[k].id \in DOMAIN Trace[k].name_map
            /\ ~ BoundAnywhere(Trace[k].scopes, Trace[k].id)
         THEN Trace[k].name_map[Trace[k].id] ELSE Trace[k].id
    ELSE Resolve(Trace[k].scopes, Trace[k].id)

\* C32: resolution is one forward pass under both policies.  Every load is
\* rewritten to what the bindings recorded before its visit give, and the
\* tree returned still carries that identifier: in  p; u; <binding of t>; v
\* the load u is what p alone makes of it, whatever the later statement
\* binds.
C32_SingleForwardPass ==
    last.op = "visit" =>
        /\ \A k \in 1 .. Len(Trace) :
              IsLoad(Trace[k]) => Trace[k].new = ResolvedAt(k)
        /\ last.arg \in LateBindingScenarios =>
              last.ret.body[2].value.id =
                 ResolvedByFirst(last.arg, last.ret, last.arg.body[2].value.id)

\* import x; x; x = y + 1; x under the selective policy: the first load is
\* rewritten to the alias of the import, the assignment then binds x and
\* the last load is left alone
C32_Witness ==
    /\ last.op = "visit" /\ SelectiveCall
    /\ last.arg = Module(<<ImportOf("x"), Expr(Load("x")), Incr("x", "y"),
                           Expr(Load("x"))>>)
    /\ last.ret.body[2].value.id = last.ret.body[1].names[1].asname
    /\ last.ret.body[2].value.id # "x"
    /\ BoundAnywhere(sel_scopes, "x")
    /\ last.ret.body[4].value.id = "x"

(***************************************************************************)
(* HistoryValue (src/test.py): a value with the list of the values it had  *)
(* and a cursor into the list.  __values is an attribute of the class, so  *)
(* every instance works on the one list until revert gives it its own.     *)
(***************************************************************************)
HvIds == {1, 2}
HvValues == {10, 20}

\* longest list of values, and most steps of one undo, redo or shift
MaxHistory == 3
MaxSteps == 2

\* the variables of the renamers, which the objects leave alone
renamers == <<scopes, rng, minted, name_map, sel_scopes, sel_random, pc, engines>>

\* the outcome of a call: a value, or the exception raised
Ok(v) == [err |-> "", val |-> v]
Raise(e) == [err |-> e, val |-> 0]
Returned == Ok(0)

\* l[i] for a Python list l: a negative i counts from the end
list_getitem(l, i) ==
    IF 0 <= i /\ i < Len(l) THEN Ok(l[i + 1])
    ELSE IF i < 0 /\ 0 - Len(l) <= i THEN Ok(l[Len(l) + i + 1])
    ELSE Raise("IndexError")

\* l.insert(i, x): the position is clipped to the list
list_insert(l, i, x) ==
    LET at == IF i < 0 THEN (IF Len(l) + i < 0 THEN 0 ELSE Len(l) + i)
              ELSE IF i > Len(l) THEN Len(l) ELSE i
    IN SubSeq(l, 1, at) \o <<x>> \o SubSeq(l, at + 1, Len(l))

\* an instance not yet constructed: __cursor is the 0 of the class; bare
\* says that clear_history has made __values the one value values[1] and no
\* list; given is the list of the values passed to the constructor and to
\* set, kept while plain holds, that is while nothing else was called
NoInstance ==
    [live |-> FALSE, cursor |-> 0, own |-> FALSE, values |-> << >>,
     bare |-> FALSE, given |-> << >>, plain |-> TRUE]

\* self.__values: the instance's own list if revert gave it one, the list
\* of the class otherwise
HV_values(o) == IF o.own THEN o.values ELSE hv_values

\* HistoryValue.value: a subscript of a value that is no list raises TypeError
HV_value(o) ==
    IF o.bare THEN Raise("TypeError") ELSE list_getitem(HV_values(o), o.cursor - 1)

\* HistoryValue.history: whatever __values is
HV_history(o) == IF o.bare THEN o.values[1] ELSE HV_values(o)

\* HistoryValue.__len__
HV_len(o) == IF o.bare THEN Raise("TypeError") ELSE Ok(Len(HV_values(o)))

\* the record of a call op(args) of instance i that ended with ret
HvCall(op, i, args, ret) ==
    [op |-> op, arg |-> [self |-> i, args |-> args], ret |-> ret,
     pre |-> [values |-> HV_values(hv_objs[i]), cursor |-> hv_objs[i].cursor],
     trace |-> << >>]

\* the cursors the model follows
Cursors == (1 - MaxSteps) .. (MaxHistory + 1)

HistoryInit ==
    /\ hv_values = << >>
    /\ hv_objs = [i \in HvIds |-> NoInstance]
    /\ ll_values = << >>
    /\ ll_objs = << >>
    /\ scopes = << >> /\ rng = 0 /\ minted = << >>
    /\ name_map = << >> /\ sel_scopes = << >> /\ sel_random = 0
    /\ pc = "new" /\ engines = NoEngines
    /\ last = NoCall

\* self.__values.insert(self.__cursor, value); self.__cursor += 1, on the
\* list reached through the instance; a value that is no list has no insert
\* (AttributeError) and the cursor stays
HV_insert(i, value) ==
    LET o == hv_objs[i]
        l == list_insert(HV_values(o), o.cursor, value)
    IN /\ hv_values' = IF o.own THEN hv_values ELSE l
       /\ hv_objs' = [hv_objs EXCEPT ![i] =
                         IF o.bare THEN o
                         ELSE [o EXCEPT !.live = TRUE, !.cursor = o.cursor + 1,
                                   !.values = IF o.own THEN l ELSE o.values,
                                   !.given = IF o.plain THEN Append(o.given, value)
                                             ELSE o.given]]
       /\ UNCHANGED <<renamers, ll_values, ll_objs>>

\* HistoryValue(value)
HistoryValue_init(i, value) ==
    /\ ~ hv_objs[i].live
    /\ Len(hv_values) < MaxHistory
    /\ HV_insert(i, value)

\* how v.set(value) ends: a value that is no list has no insert
HV_set_outcome(o) ==
    IF o.bare THEN Raise("AttributeError") ELSE Returned

\* v.set(value)
HV_set(i, value) ==
    /\ hv_objs[i].live
    /\ Len(HV_values(hv_objs[i])) < MaxHistory
    /\ hv_objs[i].cursor + 1 \in Cursors
    /\ HV_insert(i, value)

\* self.__cursor += by, the body of undo, redo, __rshift__ and __lshift__
HV_move(i, by) ==
    /\ hv_objs[i].live
    /\ hv_objs[i].cursor + by \in Cursors
    /\ hv_objs' = [hv_objs EXCEPT ![i].cursor = @ + by, ![i].plain = FALSE,
                                  ![i].given = << >>]
    /\ UNCHANGED <<renamers, hv_values, ll_values, ll_objs>>

HV_undo(i, steps) == HV_move(i, 0 - steps)
HV_redo(i, steps) == HV_move(i, steps)
HV_rshift(i, ammount) == HV_move(i, ammount)
HV_lshift(i, ammount) == HV_move(i, 0 - ammount)

\* how v.revert(to, keep_history) ends: [self.__values[self.__cursor]] is
\* evaluated with the cursor already at to + 1 and raises IndexError when
\* that is no index of the list
HV_revert_outcome(o, to, keep_history) ==
    IF keep_history THEN Returned
    ELSE IF o.bare THEN Raise("TypeError")
    ELSE IF list_getitem(HV_values(o), to + 1).err # ""
    THEN list_getitem(HV_values(o), to + 1)
    ELSE Returned

\* v.revert(to, keep_history): the cursor is moved first; with keep_history
\* False the instance then gets a list of its own with the one value
HV_revert(i, to, keep_history) ==
    /\ hv_objs[i].live
    /\ LET o == hv_objs[i]
       IN hv_objs' =
            [hv_objs EXCEPT ![i] =
                IF keep_history \/ HV_revert_outcome(o, to, keep_history).err # ""
                THEN [o EXCEPT !.cursor = to + 1, !.plain = FALSE, !.given = << >>]
                ELSE [o EXCEPT !.cursor = to + 1, !.plain = FALSE, !.given = << >>,
                               !.own = TRUE,
                               !.values = <<list_getitem(HV_values(o), to + 1).val>>]]
    /\ UNCHANGED <<renamers, hv_values, ll_values, ll_objs>>

\* how v.clear_history() ends
HV_clear_history_outcome(o) ==
    IF o.bare THEN Raise("TypeError")
    ELSE IF list_getitem(HV_values(o), o.cursor).err # ""
    THEN list_getitem(HV_values(o), o.cursor)
    ELSE Returned

\* v.clear_history(): self.__values = self.__values[self.__cursor], the
\* value at the cursor and no list of it
HV_clear_history(i) ==
    /\ hv_objs[i].live
    /\ LET o == hv_objs[i]
       IN hv_objs' =
            [hv_objs EXCEPT ![i] =
                IF HV_clear_history_outcome(o).err # ""
                THEN [o EXCEPT !.plain = FALSE, !.given = << >>]
                ELSE [o EXCEPT !.plain = FALSE, !.given = << >>,
                               !.own = TRUE, !.bare = TRUE,
                               !.values = <<list_getitem(HV_values(o), o.cursor).val>>]]
    /\ UNCHANGED <<renamers, hv_values, ll_values, ll_objs>>

\* two instances; every call of either
HistoryNext ==
    \E i \in HvIds :
        \/ \E value \in HvValues : HistoryValue_init(i, value) /\ UNCHANGED last
        \/ \E value \in HvValues : HV_set(i, value) /\ UNCHANGED last
        \/ \E steps \in 1 .. MaxSteps : HV_undo(i, steps) /\ UNCHANGED last
        \/ \E steps \in 1 .. MaxSteps : HV_redo(i, steps) /\ UNCHANGED last
        \/ \E ammount \in 1 .. MaxSteps : HV_rshift(i, ammount) /\ UNCHANGED last
        \/ \E ammount \in 1 .. MaxSteps : HV_lshift(i, ammount) /\ UNCHANGED last
        \/ \E to \in 0 .. (MaxHistory - 1), keep_history \in BOOLEAN :
              HV_revert(i, to, keep_history) /\ UNCHANGED last
        \/ HV_clear_history(i) /\ UNCHANGED last

SpecHistory == HistoryInit /\ [][HistoryNext]_vars

\* one instance, with the record of its last call
RevertNext ==
    \/ \E value \in HvValues :
          HistoryValue_init(1, value) /\ last' = HvCall("__init__", 1, <<value>>, Returned)
    \/ \E value \in HvValues :
          HV_set(1, value) /\ last' = HvCall("set", 1, <<value>>, HV_set_outcome(hv_objs[1]))
    \/ \E steps \in 1 .. MaxSteps :
          HV_undo(1, steps) /\ last' = HvCall("undo", 1, <<steps>>, Returned)
    \/ \E steps \in 1 .. MaxSteps :
          HV_redo(1, steps) /\ last' = HvCall("redo", 1, <<steps>>, Returned)
    \/ \E to \in 0 .. (MaxHistory - 1), keep_history \in BOOLEAN :
          /\ HV_revert(1, to, keep_history)
          /\ last' = HvCall("revert", 1, [to |-> to, keep_history |-> keep_history],
                            HV_revert_outcome(hv_objs[1], to, keep_history))
    \/ /\ HV_clear_history(1)
       /\ last' = HvCall("clear_history", 1, << >>, HV_clear_history_outcome(hv_objs[1]))

SpecRevert == HistoryInit /\ [][RevertNext]_vars

\* C33: an instance made with v0 and given set(v1) .. set(vn), and nothing
\* else, has the history [v0, .., vn], the length n + 1 and the value vn,
\* whatever other instances there are.
C33_HistoryIsOwn ==
    \A i \in DOMAIN hv_objs :
        (hv_objs[i].live /\ hv_objs[i].plain) =>
            /\ HV_history(hv_objs[i]) = hv_objs[i].given
            /\ HV_len(hv_objs[i]) = Ok(Len(hv_objs[i].given))
            /\ HV_value(hv_objs[i]) = Ok(hv_objs[i].given[Len(hv_objs[i].given)])

\* C34: after revert(to), with keep_history True or False, the current value
\* is the value the history held at index to before the call, and the call
\* raises nothing, for every to that is an index of a stored value.
C34_RevertRestores ==
    (/\ last.op = "revert"
     /\ last.arg.args.to < Len(last.pre.values)) =>
        /\ last.ret.err = ""
        /\ HV_value(hv_objs[last.arg.self]) = Ok(last.pre.values[last.arg.args.to + 1])

\* C35: the cursor of every instance stays between 1 and the number of
\* stored values, so that value is one of them and raises nothing.
C35_CursorInRange ==
    \A i \in DOMAIN hv_objs :
        hv_objs[i].live =>
            /\ 1 <= hv_objs[i].cursor
            /\ HV_len(hv_objs[i]).err = ""
            /\ hv_objs[i].cursor <= HV_len(hv_objs[i]).val
            /\ HV_value(hv_objs[i]).err = ""

\* ---------------------------------------------------------------------
\* LazyList (src/another_test.py)
\* ---------------------------------------------------------------------

LlIds == {1, 2}

\* what a function of the list returns: None, or a value
Results == {"None", "a"}

\* most functions of one list
MaxFunctions == 2

\* a dict over the indices: an index with no entry holds Absent
Keys == 0 .. (MaxFunctions - 1)
Absent == "<absent>"
EmptyDict == [k \in Keys |-> Absent]
dict_has(d, k) == k \in DOMAIN d /\ d[k] # Absent
\* d.get(k): None for an index with no entry
dict_get(d, k) == IF dict_has(d, k) THEN d[k] ELSE "None"
dict_set(d, k, v) == [d EXCEPT ![k] = v]
dict_del(d, k) == [d EXCEPT ![k] = Absent]
dict_len(d) == Cardinality({k \in DOMAIN d : d[k] # Absent})

\* a call that raised e
Raises(e) == [err |-> e, val |-> "None"]

\* the lists of functions, each function given by what it returns
FunctionLists == UNION {[1 .. n -> Results] : n \in 1 .. MaxFunctions}

\* an instance not yet constructed: __index and __caching are those of the
\* class; made is the set of indices whose entry this instance stored and
\* has not deleted or cleared since
NoLazy ==
    [live |-> FALSE, functions |-> << >>, index |-> 0, caching |-> TRUE,
     own |-> FALSE, values |-> EmptyDict, made |-> {}]

\* self.__values: the instance's own dict if clear_cache gave it one, the
\* dict of the class otherwise
LL_values(o) == IF o.own THEN o.values ELSE ll_values

\* LazyList.computed_nodes
LL_computed_nodes(o) == dict_len(LL_values(o))

\* LazyList.__len__
LL_len(o) == Len(o.functions)

\* self.__functions[idx]()
LL_invoke(o, idx) ==
    IF idx < Len(o.functions) THEN Ok(o.functions[idx + 1])
    ELSE Raises("IndexError")

\* the read of index idx that __getitem__, __next__ and prefetch share, on
\* the dict d: the dict afterwards, what is returned and how often the
\* function was invoked (never when the subscript of __functions raises
\* IndexError)
LL_read(o, d, idx) ==
    IF o.caching
    THEN IF dict_get(d, idx) = "None"
         THEN IF LL_invoke(o, idx).err = ""
              THEN [d |-> dict_set(d, idx, LL_invoke(o, idx).val), idx |-> idx,
                    ret |-> LL_invoke(o, idx), called |-> 1]
              ELSE [d |-> d, idx |-> idx, ret |-> LL_invoke(o, idx), called |-> 0]
         ELSE [d |-> d, idx |-> idx, ret |-> Ok(d[idx]), called |-> 0]
    ELSE [d |-> d, idx |-> idx, ret |-> LL_invoke(o, idx),
          called |-> IF LL_invoke(o, idx).err = "" THEN 1 ELSE 0]

\* the indices a read stored an entry for
LL_stored(o, r) ==
    IF o.caching /\ r.called = 1 /\ r.ret.err = "" THEN {r.idx} ELSE {}

\* the instance and the dict it reads from after its reads left the dict d
\* and stored the indices new
LL_put(i, d, new, index) ==
    /\ ll_values' = IF ll_objs[i].own THEN ll_values ELSE d
    /\ ll_objs' = [ll_objs EXCEPT ![i] =
                      [ll_objs[i] EXCEPT !.values = IF ll_objs[i].own THEN d ELSE @,
                                         !.made = @ \cup new,
                                         !.index = index]]
    /\ UNCHANGED <<renamers, hv_values, hv_objs>>

LazyInit ==
    /\ ll_values = EmptyDict
    /\ ll_objs = [i \in LlIds |-> NoLazy]
    /\ hv_values = << >>
    /\ hv_objs = << >>
    /\ scopes = << >> /\ rng = 0 /\ minted = << >>
    /\ name_map = << >> /\ sel_scopes = << >> /\ sel_random = 0
    /\ pc = "new" /\ engines = NoEngines
    /\ last = NoCall

\* LazyList(fn)
LazyList_init(i, fn) ==
    /\ ~ ll_objs[i].live
    /\ ll_objs' = [ll_objs EXCEPT ![i] = [NoLazy EXCEPT !.live = TRUE, !.functions = fn]]
    /\ UNCHANGED <<renamers, hv_values, hv_objs, ll_values>>

\* l[item]
LL_getitem_outcome(o, item) == LL_read(o, LL_values(o), item)

LL_getitem(i, item) ==
    /\ ll_objs[i].live
    /\ LL_put(i, LL_getitem_outcome(ll_objs[i], item).d,
              LL_stored(ll_objs[i], LL_getitem_outcome(ll_objs[i], item)),
              ll_objs[i].index)

\* iter(l)
LL_iter(i) ==
    /\ ll_objs[i].live
    /\ ll_objs' = [ll_objs EXCEPT ![i].index = 0]
    /\ UNCHANGED <<renamers, hv_values, hv_objs, ll_values>>

\* next(l)
LL_next_outcome(o) ==
    IF o.index < Len(o.functions) THEN LL_read(o, LL_values(o), o.index)
    ELSE [d |-> LL_values(o), idx |-> o.index, ret |-> Raises("StopIteration"),
          called |-> 0]

LL_next(i) ==
    /\ ll_objs[i].live
    /\ LL_put(i, LL_next_outcome(ll_objs[i]).d,
              LL_stored(ll_objs[i], LL_next_outcome(ll_objs[i])),
              IF ll_objs[i].index < Len(ll_objs[i].functions)
              THEN ll_objs[i].index + 1 ELSE ll_objs[i].index)

\* l.__aiter__()
LL_aiter(i) ==
    /\ ll_objs[i].live
    /\ ll_objs' = [ll_objs EXCEPT ![i].index = 0]
    /\ UNCHANGED <<renamers, hv_values, hv_objs, ll_values>>

\* await l.__anext__()
LL_anext_outcome(o) ==
    IF o.index < Len(o.functions) THEN LL_read(o, LL_values(o), o.index)
    ELSE [d |-> LL_values(o), idx |-> o.index, ret |-> Raises("StopAsyncIteration"),
          called |-> 0]

LL_anext(i) ==
    /\ ll_objs[i].live
    /\ LL_put(i, LL_anext_outcome(ll_objs[i]).d,
              LL_stored(ll_objs[i], LL_anext_outcome(ll_objs[i])),
              IF ll_objs[i].index < Len(ll_objs[i].functions)
              THEN ll_objs[i].index + 1 ELSE ll_objs[i].index)

\* del l[item]
LL_delitem_outcome(o, item) ==
    IF dict_has(LL_values(o), item) THEN Returned ELSE Raise("KeyError")

LL_delitem(i, item) ==
    /\ ll_objs[i].live
    /\ LET o == ll_objs[i]
           d == IF dict_has(LL_values(o), item) THEN dict_del(LL_values(o), item)
                ELSE LL_values(o)
       IN /\ ll_values' = IF o.own THEN ll_values ELSE d
          /\ ll_objs' = [ll_objs EXCEPT ![i] =
                            [o EXCEPT !.values = IF o.own THEN d ELSE @,
                                      !.made = IF dict_has(LL_values(o), item)
                                               THEN @ \ {item} ELSE @]]
    /\ UNCHANGED <<renamers, hv_values, hv_objs>>

\* the loop of prefetch from index idx up to upto, on the dict d: the dict
\* afterwards and the reads in order
RECURSIVE LL_prefetch_from(_, _, _, _)
LL_prefetch_from(o, d, idx, upto) ==
    IF idx >= upto THEN [d |-> d, reads |-> << >>]
    ELSE [d |-> LL_prefetch_from(o, LL_read(o, d, idx).d, idx + 1, upto).d,
          reads |-> <<LL_read(o, d, idx)>> \o
                    LL_prefetch_from(o, LL_read(o, d, idx).d, idx + 1, upto).reads]

\* self.__functions[:elements]
LL_slice_end(o, elements) ==
    IF elements < Len(o.functions) THEN elements ELSE Len(o.functions)

\* with l.prefetch(elements) as result
LL_prefetch_outcome(o, elements) ==
    LL_prefetch_from(o, LL_values(o), 0, LL_slice_end(o, elements))

LL_prefetch(i, elements) ==
    /\ ll_objs[i].live
    /\ LL_put(i, LL_prefetch_outcome(ll_objs[i], elements).d,
              UNION {LL_stored(ll_objs[i], LL_prefetch_outcome(ll_objs[i], elements).reads[k]) :
                        k \in DOMAIN LL_prefetch_outcome(ll_objs[i], elements).reads},
              ll_objs[i].index)

\* with l.no_cache(): entering the block
LL_no_cache_enter(i) ==
    /\ ll_objs[i].live
    /\ ll_objs[i].caching
    /\ ll_objs' = [ll_objs EXCEPT ![i].caching = FALSE]
    /\ UNCHANGED <<renamers, hv_values, hv_objs, ll_values>>

\* with l.no_cache(): leaving the block
LL_no_cache_exit(i) ==
    /\ ll_objs[i].live
    /\ ~ ll_objs[i].caching
    /\ ll_objs' = [ll_objs EXCEPT ![i].caching = TRUE]
    /\ UNCHANGED <<renamers, hv_values, hv_objs, ll_values>>

\* l.clear_cache(): the instance gets an empty dict of its own
LL_clear_cache(i) ==
    /\ ll_objs[i].live
    /\ ll_objs' = [ll_objs EXCEPT ![i].own = TRUE, ![i].values = EmptyDict,
                                  ![i].made = {}]
    /\ UNCHANGED <<renamers, hv_values, hv_objs, ll_values>>

\* two instances; every call of either
LazyNext ==
    \E i \in LlIds :
        \/ \E fn \in FunctionLists : LazyList_init(i, fn) /\ UNCHANGED last
        \/ \E item \in Keys : LL_getitem(i, item) /\ UNCHANGED last
        \/ LL_iter(i) /\ UNCHANGED last
        \/ LL_next(i) /\ UNCHANGED last
        \/ LL_aiter(i) /\ UNCHANGED last
        \/ LL_anext(i) /\ UNCHANGED last
        \/ \E item \in Keys : LL_delitem(i, item) /\ UNCHANGED last
        \/ \E elements \in 0 .. MaxFunctions : LL_prefetch(i, elements) /\ UNCHANGED last
        \/ LL_no_cache_enter(i) /\ UNCHANGED last
        \/ LL_no_cache_exit(i) /\ UNCHANGED last
        \/ LL_clear_cache(i) /\ UNCHANGED last

SpecLazy == LazyInit /\ [][LazyNext]_vars

\* the record of a call op(args) of instance i that ended with ret after
\* the reads given, each with its index, its result and its invocations
LlCall(op, i, args, ret, reads) ==
    [op |-> op, arg |-> [self |-> i, args |-> args], ret |-> ret,
     pre |-> [values |-> LL_values(ll_objs[i]), caching |-> ll_objs[i].caching],
     trace |-> reads]

\* one instance, with the record of its last call
CacheNext ==
    \/ \E fn \in FunctionLists :
          LazyList_init(1, fn) /\ last' = LlCall("__init__", 1, <<fn>>, Returned, << >>)
    \/ \E item \in Keys :
          /\ LL_getitem(1, item)
          /\ last' = LlCall("__getitem__", 1, <<item>>,
                            LL_getitem_outcome(ll_objs[1], item).ret,
                            <<LL_getitem_outcome(ll_objs[1], item)>>)
    \/ LL_iter(1) /\ last' = LlCall("__iter__", 1, << >>, Returned, << >>)
    \/ /\ LL_next(1)
       /\ last' = LlCall("__next__", 1, << >>, LL_next_outcome(ll_objs[1]).ret,
                         IF LL_next_outcome(ll_objs[1]).ret.err = ""
                         THEN <<LL_next_outcome(ll_objs[1])>> ELSE << >>)
    \/ LL_aiter(1) /\ last' = LlCall("__aiter__", 1, << >>, Returned, << >>)
    \/ /\ LL_anext(1)
       /\ last' = LlCall("__anext__", 1, << >>, LL_anext_outcome(ll_objs[1]).ret,
                         IF LL_anext_outcome(ll_objs[1]).ret.err = ""
                         THEN <<LL_anext_outcome(ll_objs[1])>> ELSE << >>)
    \/ \E item \in Keys :
          /\ LL_delitem(1, item)
          /\ last' = LlCall("__delitem__", 1, <<item>>,
                            LL_delitem_outcome(ll_objs[1], item), << >>)
    \/ \E elements \in 0 .. MaxFunctions :
          /\ LL_prefetch(1, elements)
          /\ last' = LlCall("prefetch", 1, <<elements>>, Returned,
                            LL_prefetch_outcome(ll_objs[1], elements).reads)
    \/ LL_no_cache_enter(1) /\ last' = LlCall("no_cache", 1, << >>, Returned, << >>)
    \/ LL_no_cache_exit(1) /\ last' = LlCall("no_cache.exit", 1, << >>, Returned, << >>)
    \/ LL_clear_cache(1) /\ last' = LlCall("clear_cache", 1, << >>, Returned, << >>)

SpecCache == LazyInit /\ [][CacheNext]_vars

\* the calls that read the list
LlReads == {"__getitem__", "__next__", "__anext__", "prefetch"}

\* C36: with caching on, a read of an index whose entry is in the cache (its
\* function was invoked and the entry neither deleted nor cleared since)
\* invokes nothing and returns the entry, the result of the first
\* invocation, whatever that result was.
C36_InvokedOnce ==
    (last.op \in LlReads /\ last.pre.caching) =>
        \A k \in DOMAIN last.trace :
            dict_has(last.pre.values, last.trace[k].idx) =>
                /\ last.trace[k].called = 0
                /\ last.trace[k].ret = Ok(last.pre.values[last.trace[k].idx])

\* C37: every index of an instance reads as the result of the instance's
\* own function at that index, by subscript and by iteration, and
\* computed_nodes counts the entries the instance itself stored.
C37_OwnFunctions ==
    \A i \in DOMAIN ll_objs :
        ll_objs[i].live =>
            /\ \A item \in 0 .. (LL_len(ll_objs[i]) - 1) :
                  LL_getitem_outcome(ll_objs[i], item).ret = LL_invoke(ll_objs[i], item)
            /\ ll_objs[i].index < LL_len(ll_objs[i]) =>
                  /\ LL_next_outcome(ll_objs[i]).ret =
                         LL_invoke(ll_objs[i], ll_objs[i].index)
                  /\ LL_anext_outcome(ll_objs[i]).ret =
                         LL_invoke(ll_objs[i], ll_objs[i].index)
            /\ LL_computed_nodes(ll_objs[i]) = Cardinality(ll_objs[i].made)

====
